---- MODULE Spec2Model ----
(***************************************************************************)
(* Model of the reserve-data command side: the HTTP handlers for           *)
(* /deposit, /withdraw, /trade and /setrates, the ReserveCore commands     *)
(* they call, the activity journal the commands record into and the        *)
(* fetcher's status updates.  Requests are served concurrently (one        *)
(* goroutine per request); a command is split into steps at the points     *)
(* where it touches shared state or the network.                           *)
(*                                                                         *)
(* Four further specifications each run one component on inputs drawn in   *)
(* the initial state: SpecActivityID (the text form of ActivityID and      *)
(* /cancelorder), SpecPending (the pending predicates), SpecGate           *)
(* (HTTPServer.Authenticated) and SpecRead (the read handlers and          *)
(* getTimePoint).  Three more run a component under concurrent callers:    *)
(* SpecMetric (POST /metrics and RamMetricStorage), SpecInfo               *)
(* (ExchangeInfo and its lock) and SpecJournal (the journal and            *)
(* /immediate-pending-activities).                                         *)
(***************************************************************************)
EXTENDS Integers, Sequences, FiniteSets, TLC

\* ------------------------------------------------------------------ bounds
\* requests served, each by its own goroutine
NumRequests == 2
\* status updates the fetcher makes
MaxUpdates == 1
Procs == 1..NumRequests

\* ------------------------------------------------------- static registries
SupportedExchanges == {"binance"}
SupportedTokens == {"ETH", "KNC", "OMG"}
\* tokens for which exchange.Address(token) reports a deposit address
DepositAddresses == [e \in SupportedExchanges |-> {"ETH", "KNC"}]

NoErr == ""
ErrUnsupported == "Exchange doesn't support token"
ErrPending == "There is a pending deposit currently, please try again"
ErrLength == "Tokens, buys and sells must have the same length"
AdapterErrors == {"timeout"}

ZeroHash == "0x00"
\* the hash of the transaction that request p submits
TxHash(p) == <<"0xa1", "0xb2", "0xc3", "0xd4">>[p]

\* ------------------------------------------------------------ input parsing
GetExchangeOK(e) == e \in SupportedExchanges
GetTokenOK(t) == t \in SupportedTokens
DecodeBigOK(s) == s \in {"0x1", "0x2"}
ParseFloatOK(s) == s \in {"1.5", "0.01"}
ParseIntOK(s) == s \in {"1"}
FormatAmount(s) == IF s = "0x1" THEN "1" ELSE "2"

\* ------------------------------------------------------------ text and numbers
\* A text is a sequence of one-character strings.  uint64 and int64 are
\* modelled WordBits wide.
WordBits == 20
MaxUint == 2^WordBits - 1
MaxInt == 2^(WordBits - 1) - 1
MinInt == -(2^(WordBits - 1))

Digits == <<"0", "1", "2", "3", "4", "5", "6", "7", "8", "9">>
IsDigit(c) == \E d \in 1..10 : Digits[d] = c
DigitValue(c) == (CHOOSE d \in 1..10 : Digits[d] = c) - 1

ErrSyntax == "invalid syntax"
ErrRange == "value out of range"

RECURSIVE Magnitude(_, _)
\* the value of a run of digits, stopping at the first value above limit
Magnitude(s, limit) ==
  IF Len(s) = 0 THEN 0
  ELSE LET v == Magnitude(SubSeq(s, 1, Len(s) - 1), limit)
       IN IF v > limit THEN v ELSE v * 10 + DigitValue(s[Len(s)])

\* strconv.ParseUint(s, 10, 64)
ParseUint(s) ==
  IF Len(s) = 0 \/ \E i \in DOMAIN s : ~IsDigit(s[i])
  THEN [err |-> ErrSyntax, val |-> 0]
  ELSE IF Magnitude(s, MaxUint) > MaxUint
  THEN [err |-> ErrRange, val |-> MaxUint]
  ELSE [err |-> NoErr, val |-> Magnitude(s, MaxUint)]

RECURSIVE FormatUint(_)
\* strconv.FormatUint(n, 10)
FormatUint(n) ==
  IF n < 10 THEN <<Digits[n + 1]>>
  ELSE FormatUint(n \div 10) \o <<Digits[(n % 10) + 1]>>

RECURSIVE Split(_)
\* strings.Split(s, "|")
Split(s) ==
  IF \A i \in DOMAIN s : s[i] # "|" THEN <<s>>
  ELSE LET k == CHOOSE i \in DOMAIN s :
                  s[i] = "|" /\ \A j \in 1..(i - 1) : s[j] # "|"
       IN <<SubSeq(s, 1, k - 1)>> \o Split(SubSeq(s, k + 1, Len(s)))

RECURSIVE Join(_)
\* strings.Join(parts, "|")
Join(parts) ==
  IF Len(parts) = 0 THEN <<>>
  ELSE IF Len(parts) = 1 THEN parts[1]
  ELSE parts[1] \o <<"|">> \o Join(Tail(parts))

\* two's complement of WordBits bits
Wrap(x) == ((x - MinInt) % (2^WordBits)) + MinInt

\* strconv.ParseInt(s, 10, 64)
ParseInt(s) ==
  LET signed == Len(s) > 0 /\ s[1] \in {"+", "-"}
      neg == Len(s) > 0 /\ s[1] = "-"
      un == ParseUint(IF signed THEN Tail(s) ELSE s)
  IN IF un.err = ErrSyntax THEN [err |-> ErrSyntax, val |-> 0]
     ELSE IF ~neg /\ un.val >= MaxInt + 1 THEN [err |-> ErrRange, val |-> MaxInt]
     ELSE IF neg /\ un.val > MaxInt + 1 THEN [err |-> ErrRange, val |-> MinInt]
     ELSE [err |-> NoErr, val |-> IF neg THEN -un.val ELSE un.val]

\* fmt.Sprintf("%d", n)
FormatInt(n) == IF n < 0 THEN <<"-">> \o FormatUint(-n) ELSE FormatUint(n)

\* --------------------------------------------------------------- ActivityID
ErrInvalidID == "Invalid activity id"

\* ActivityID.MarshalText
MarshalText(id) == FormatUint(id.Timepoint) \o <<"|">> \o id.EID

StringToActivityIDSecondPartOnly(id) ==
  LET parts == Split(id)
  IN IF Len(parts) < 2
     THEN [err |-> ErrInvalidID, id |-> [Timepoint |-> 0, EID |-> <<>>]]
     ELSE LET n == ParseUint(parts[1])
          IN IF n.err # NoErr
             THEN [err |-> n.err, id |-> [Timepoint |-> 0, EID |-> <<>>]]
             ELSE [err |-> NoErr, id |-> [Timepoint |-> n.val, EID |-> parts[2]]]

StringToActivityIDNoSeparatorCheck(id) ==
  LET parts == Split(id)
      n == ParseUint(parts[1])
  IN IF n.err # NoErr
     THEN [err |-> n.err, id |-> [Timepoint |-> 0, EID |-> <<>>]]
     ELSE [err |-> NoErr, id |-> [Timepoint |-> n.val, EID |-> Join(Tail(parts))]]

\* StringToActivityID: the error and the result
StringToActivityID(id) ==
  LET parts == Split(id)
  IN IF Len(parts) < 2
     THEN [err |-> ErrInvalidID, id |-> [Timepoint |-> 0, EID |-> <<>>]]
     ELSE LET n == ParseUint(parts[1])
          IN IF n.err # NoErr
             THEN [err |-> n.err, id |-> [Timepoint |-> 0, EID |-> <<>>]]
             ELSE [err |-> NoErr,
                   id |-> [Timepoint |-> n.val, EID |-> Join(Tail(parts))]]

\* ------------------------------------------------------ pending predicates
IsExchangePending(r) ==
  CASE r.action = "withdraw" ->
         (r.estatus = "" \/ r.estatus = "submitted") /\ r.mstatus # "failed"
    [] r.action = "deposit" ->
         (r.estatus = "" \/ r.estatus = "pending") /\ r.mstatus # "failed"
    [] r.action = "trade" ->
         r.estatus = "" \/ r.estatus = "submitted"
    [] OTHER -> TRUE

IsBlockchainPending(r) ==
  IF r.action \in {"withdraw", "deposit", "set_rates"}
  THEN (r.mstatus = "" \/ r.mstatus = "submitted") /\ r.estatus # "failed"
  ELSE TRUE

IsPendingIgnoringFailure(r) ==
  CASE r.action = "withdraw" ->
         r.estatus = "" \/ r.estatus = "submitted" \/
         r.mstatus = "" \/ r.mstatus = "submitted"
    [] r.action = "deposit" ->
         r.estatus = "" \/ r.estatus = "pending" \/
         r.mstatus = "" \/ r.mstatus = "submitted"
    [] r.action = "trade" -> r.estatus = "" \/ r.estatus = "submitted"
    [] r.action = "set_rates" -> r.mstatus = "" \/ r.mstatus = "submitted"
    [] OTHER -> TRUE

IsPending(r) ==
  CASE r.action = "withdraw" ->
         (r.estatus = "" \/ r.estatus = "submitted" \/
          r.mstatus = "" \/ r.mstatus = "submitted") /\
         r.mstatus # "failed" /\ r.estatus # "failed"
    [] r.action = "deposit" ->
         (r.estatus = "" \/ r.estatus = "pending" \/
          r.mstatus = "" \/ r.mstatus = "submitted") /\
         r.mstatus # "failed" /\ r.estatus # "failed"
    [] r.action = "trade" ->
         (r.estatus = "" \/ r.estatus = "submitted") /\ r.estatus # "failed"
    [] r.action = "set_rates" ->
         (r.mstatus = "" \/ r.mstatus = "submitted") /\ r.estatus # "failed"
    [] OTHER -> TRUE

\* ------------------------------------------------------------------ journal
\* has_pending_deposit: lookup in the pending index by (deposit, token, exchange)
HasPendingDeposit(j, token, exchange) ==
  \E i \in DOMAIN j :
     /\ j[i].action = "deposit"
     /\ j[i].token = token
     /\ j[i].destination = exchange
     /\ IsPending(j[i])

\* record: append
JournalRecord(j, r) == Append(j, r)

\* update_status: mutate the two status fields only
JournalUpdateStatus(j, i, es, ms) ==
  [j EXCEPT ![i].estatus = es, ![i].mstatus = ms]

\* scan_pending
GetPendingActivities(j) == SelectSeq(j, IsPending)

\* status values the fetcher can compute next for a pending activity
NextExchangeStatus(r) ==
  CASE r.action = "deposit" /\ r.estatus = "" -> {"pending", "failed"}
    [] r.action = "deposit" /\ r.estatus = "pending" -> {"done", "failed"}
    [] r.action \in {"withdraw", "trade"} /\ r.estatus \in {"", "submitted"} ->
         {"done", "failed"}
    [] OTHER -> {}

NextMiningStatus(r) ==
  IF r.action \in {"deposit", "withdraw", "set_rates"} /\ r.mstatus \in {"", "submitted"}
  THEN {"mined", "failed"}
  ELSE {}


\* ------------------------------------------------------------- reserve-core
timebasedID(now, id) == [Timepoint |-> now, EID |-> id]

DepositBranchNoPendingCheck(supported, hasPending) ==
  IF ~supported THEN "unsupported" ELSE "send"

\* Deposit: which of the three branches is taken
DepositBranch(supported, hasPending) ==
  IF ~supported THEN "unsupported"
  ELSE IF hasPending THEN "pending"
  ELSE "send"

StatusOfAlwaysSubmitted(err) == "submitted"

\* Deposit, Withdraw, SetRates: status recorded for the outcome
StatusOf(err) == IF err # NoErr THEN "failed" ELSE "submitted"

TradeStatusIgnoringError(err, finished) ==
  IF finished THEN "done" ELSE "submitted"

\* Trade: status recorded for the outcome
TradeStatus(err, finished) ==
  IF err # NoErr THEN "failed"
  ELSE IF finished THEN "done"
  ELSE "submitted"

SameLengthBuysOnly(lentokens, lenbuys, lensells) ==
  ~(lentokens # lenbuys)

\* SetRates: the length precondition
SameLength(lentokens, lenbuys, lensells) ==
  ~(lentokens # lenbuys \/ lentokens # lensells)

DepositActivityStatusSwapped(uid, exchange, token, tx, err) ==
  [action |-> "deposit", id |-> uid, destination |-> exchange, token |-> token,
   ntokens |-> 0, nbuys |-> 0, nsells |-> 0,
   error |-> err, tx |-> tx, estatus |-> StatusOf(err), mstatus |-> ""]

\* the record handed to activityStorage.Record by each command
DepositActivity(uid, exchange, token, tx, err) ==
  [action |-> "deposit", id |-> uid, destination |-> exchange, token |-> token,
   ntokens |-> 0, nbuys |-> 0, nsells |-> 0,
   error |-> err, tx |-> tx, estatus |-> "", mstatus |-> StatusOf(err)]

WithdrawActivityStatusSwapped(uid, exchange, token, err) ==
  [action |-> "withdraw", id |-> uid, destination |-> exchange, token |-> token,
   ntokens |-> 0, nbuys |-> 0, nsells |-> 0,
   error |-> err, tx |-> "", estatus |-> "", mstatus |-> StatusOf(err)]

WithdrawActivity(uid, exchange, token, err) ==
  [action |-> "withdraw", id |-> uid, destination |-> exchange, token |-> token,
   ntokens |-> 0, nbuys |-> 0, nsells |-> 0,
   error |-> err, tx |-> "", estatus |-> StatusOf(err), mstatus |-> ""]

TradeActivityStatusSwapped(uid, exchange, err, finished) ==
  [action |-> "trade", id |-> uid, destination |-> exchange, token |-> "",
   ntokens |-> 0, nbuys |-> 0, nsells |-> 0,
   error |-> err, tx |-> "", estatus |-> "", mstatus |-> TradeStatus(err, finished)]

TradeActivity(uid, exchange, err, finished) ==
  [action |-> "trade", id |-> uid, destination |-> exchange, token |-> "",
   ntokens |-> 0, nbuys |-> 0, nsells |-> 0,
   error |-> err, tx |-> "", estatus |-> TradeStatus(err, finished), mstatus |-> ""]

SetRatesActivityStatusSwapped(uid, tokens, buys, sells, tx, err) ==
  [action |-> "set_rates", id |-> uid, destination |-> "blockchain", token |-> "",
   ntokens |-> Len(tokens), nbuys |-> Len(buys), nsells |-> Len(sells),
   error |-> err, tx |-> tx, estatus |-> StatusOf(err), mstatus |-> ""]

SetRatesActivity(uid, tokens, buys, sells, tx, err) ==
  [action |-> "set_rates", id |-> uid, destination |-> "blockchain", token |-> "",
   ntokens |-> Len(tokens), nbuys |-> Len(buys), nsells |-> Len(sells),
   error |-> err, tx |-> tx, estatus |-> "", mstatus |-> StatusOf(err)]

\* ------------------------------------------------------------ HTTP handlers
\* SetRate: the rates of a dash-separated list that decode
ParseRates(list) == SelectSeq(list, DecodeBigOK)

\* SetRate: one error envelope is written for every rate that does not decode
RateErrorReplies(list) ==
  [i \in 1..(Len(list) - Len(ParseRates(list))) |-> FALSE]

\* the envelope written after a core command returned
CommandReply(err) == err = NoErr

\* ------------------------------------------------------------------ requests
NoReq ==
  [kind |-> "", exchange |-> "", token |-> "", amount |-> "", rate |-> "",
   base |-> "", quote |-> "", typ |-> "", tokens |-> <<>>, buys |-> <<>>,
   sells |-> <<>>, block |-> ""]

DepositRequests ==
  {[NoReq EXCEPT !.kind = "deposit", !.exchange = x[1], !.token = x[2], !.amount = x[3]] :
     x \in {<<"binance", "ETH", "0x1">>,
            <<"binance", "OMG", "0x1">>, <<"binance", "ETH", "zz">>,
            <<"nowhere", "ETH", "0x1">>}}

WithdrawRequests ==
  {[NoReq EXCEPT !.kind = "withdraw", !.exchange = x[1], !.token = x[2], !.amount = x[3]] :
     x \in {<<"binance", "ETH", "0x1">>, <<"binance", "OMG", "0x1">>,
            <<"binance", "ETH", "zz">>}}

TradeRequests ==
  {[NoReq EXCEPT !.kind = "trade", !.exchange = "binance", !.base = "KNC",
                 !.quote = "ETH", !.amount = x[1], !.rate = x[2], !.typ = x[3]] :
     x \in {<<"1.5", "0.01", "buy">>, <<"x", "0.01", "buy">>,
            <<"1.5", "y", "sell">>, <<"1.5", "0.01", "hodl">>}}

SetRateRequests ==
  {[NoReq EXCEPT !.kind = "setrates", !.tokens = x[1], !.buys = x[2],
                 !.sells = x[3], !.block = x[4]] :
     x \in {<<<<"KNC">>, <<"0x1">>, <<"0x1">>, "1">>,
            <<<<"KNC", "OMG">>, <<"0x1">>, <<"0x1", "0x2">>, "1">>,
            <<<<"KNC">>, <<"zz", "0x1">>, <<"0x1">>, "1">>,
            <<<<"KNC", "OMG">>, <<"0x1", "0x2">>, <<"0x1", "zz">>, "1">>,
            <<<<"KNC">>, <<"0x1">>, <<"0x1">>, "b">>,
            <<<<"XXX">>, <<"0x1">>, <<"0x1">>, "1">>}}

\* -------------------------------------------------------------------- state
VARIABLES
  pc,        \* per request goroutine: where it is
  req,       \* per request goroutine: the request being served
  loc,       \* per request goroutine: locals of the handler and the command
  replies,   \* per request goroutine: success fields of the envelopes written
  journal,   \* the activity journal, in append order
  clock,     \* the last reading of time.Now
  chain,     \* calls made to the chain adapter
  exchange,  \* calls made to the exchange adapter
  nupd       \* status updates made so far

vars == <<pc, req, loc, replies, journal, clock, chain, exchange, nupd>>

\* State of the component specifications.  Each of them runs one component
\* (the ActivityID text form, the pending predicates, the request gate, the
\* read handlers, getTimePoint) on inputs drawn in its initial state, and
\* leaves the variables of the others as they are.
VARIABLES
  idpc,      \* ActivityID: which conversions have been applied
  idorig,    \* ActivityID: the text or the value the run started from
  idtext,    \* ActivityID: the current text
  idval,     \* ActivityID: the receiver of UnmarshalText
  iderr,     \* ActivityID: the error of the last StringToActivityID
  ccalls,    \* /cancelorder: calls of core.CancelOrder
  creplies,  \* /cancelorder: success fields of the envelopes written
  prec,      \* pending predicates: the activity record they are applied to
  pres,      \* pending predicates: the results obtained so far, by predicate
  gpc,       \* gate: "arrived" until Authenticated has run, then "gated"
  gnow,      \* gate: the reading of the server time IsIntime makes
  gauth,     \* gate: HTTPServer.authEnabled
  gep,       \* gate: the endpoint requested
  gbad,      \* gate: whether ParseForm fails on the request
  gsent,     \* gate: the form as the client signed it
  gkey,      \* gate: the key the client signed with ("" when it sent no header)
  gsigned,   \* gate: the "signed" header
  gform,     \* gate: the form the request carries on arrival
  gtampers,  \* gate: changes made to the form after signing
  greplies,  \* gate: the envelopes written
  gdispatched, \* gate: whether the handler body runs
  hpc,       \* read handlers: "arrived" until the handler has run, then "done"
  hname,     \* read handlers: the handler the request is routed to
  hin,       \* read handlers: the request and what the facade will answer
  hnow,      \* read handlers: the reading of the server time
  hreplies,  \* read handlers: success fields of the envelopes written
  htp,       \* read handlers: the timepoints passed to the data facade
  herrs,     \* read handlers: errors met while handling the request
  hpanic     \* read handlers: whether the handler ended in a panic

VARIABLES
  mpc,       \* metric store: per request goroutine, where it is
  mreq,      \* metric store: per request goroutine, the POST /metrics request
  mloc,      \* metric store: per request goroutine, the handler's locals
  mmu,       \* metric store: the goroutine holding RamMetricStorage.mu, or 0
  mdata,     \* metric store: RamMetricStorage.data
  mstored,   \* metric store: every entry handed to StoreMetric, in call order
  mread,     \* metric store: the last GetMetric call and what it returned
  xpc,       \* exchange info: per goroutine, where it is
  xmu,       \* exchange info: ExchangeInfo.mu, its writer and its readers
  xdata,     \* exchange info: ExchangeInfo.data
  xupd,      \* exchange info: the pending Update and the updates made so far
  xseen,     \* exchange info: what each reader obtained
  jlog,      \* journal: the activity records, in append order
  jscan,     \* journal: the answer of /immediate-pending-activities to the
             \* latest request made since the journal last changed
  jnupd      \* journal: status updates made so far

idVars == <<idpc, idorig, idtext, idval, iderr, ccalls, creplies>>

pendVars == <<prec, pres>>

gateVars == <<gpc, gnow, gauth, gep, gbad, gsent, gkey, gsigned, gform,
              gtampers, greplies, gdispatched>>

readVars == <<hpc, hname, hin, hnow, hreplies, htp, herrs, hpanic>>

metVars == <<mpc, mreq, mloc, mmu, mdata, mstored, mread>>

infoVars == <<xpc, xmu, xdata, xupd, xseen>>

logVars == <<jlog, jscan, jnupd>>

unitVars == <<idVars, pendVars, gateVars, readVars, metVars, infoVars, logVars>>

IdIdle ==
  /\ idpc = "off" /\ idorig = <<>> /\ idtext = <<>>
  /\ idval = [Timepoint |-> 0, EID |-> <<>>] /\ iderr = NoErr
  /\ ccalls = 0 /\ creplies = <<>>

PendIdle ==
  /\ prec = [action |-> "", estatus |-> "", mstatus |-> ""]
  /\ pres = <<>>

GateIdle ==
  /\ gpc = "off" /\ gnow = 0 /\ gauth = FALSE /\ gep = "" /\ gbad = FALSE
  /\ gsent = <<>> /\ gkey = "" /\ gsigned = [key |-> "", msg |-> <<>>]
  /\ gform = <<>> /\ gtampers = 0 /\ greplies = <<>> /\ gdispatched = FALSE

NoInput ==
  [timestamp |-> <<>>, pairOK |-> FALSE, facadeErr |-> FALSE, tokens |-> <<>>,
   from |-> <<>>, to |-> <<>>, exchange |-> "", infoNil |-> FALSE]

ReadIdle ==
  /\ hpc = "off" /\ hname = "" /\ hin = NoInput /\ hnow = 0
  /\ hreplies = <<>> /\ htp = <<>> /\ herrs = 0 /\ hpanic = FALSE

MetIdle ==
  /\ mpc = <<>> /\ mreq = <<>> /\ mloc = <<>> /\ mmu = 0
  /\ mdata = <<>> /\ mstored = <<>> /\ mread = <<>>

InfoIdle ==
  /\ xpc = <<>> /\ xmu = <<>> /\ xdata = <<>> /\ xupd = <<>> /\ xseen = <<>>

LogIdle ==
  /\ jlog = <<>> /\ jscan = <<>> /\ jnupd = 0

\* every component but u is idle
IdleExcept(u) ==
  /\ IF u = "id" THEN TRUE ELSE IdIdle
  /\ IF u = "pending" THEN TRUE ELSE PendIdle
  /\ IF u = "gate" THEN TRUE ELSE GateIdle
  /\ IF u = "read" THEN TRUE ELSE ReadIdle
  /\ IF u = "metric" THEN TRUE ELSE MetIdle
  /\ IF u = "info" THEN TRUE ELSE InfoIdle
  /\ IF u = "journal" THEN TRUE ELSE LogIdle

UnitIdle == IdleExcept("")

\* what the ActivityID specification leaves alone
idRest == <<vars, pendVars, gateVars, readVars, metVars, infoVars, logVars>>
\* what the specification of the pending predicates leaves alone
pendRest == <<vars, idVars, gateVars, readVars, metVars, infoVars, logVars>>
\* what the specification of the gate leaves alone
gateRest == <<vars, idVars, pendVars, readVars, metVars, infoVars, logVars>>
\* what the specification of the read handlers leaves alone
readRest == <<vars, idVars, pendVars, gateVars, metVars, infoVars, logVars>>
\* what the specification of the metric store leaves alone
metRest == <<vars, idVars, pendVars, gateVars, readVars, infoVars, logVars>>
\* what the specification of ExchangeInfo leaves alone
infoRest == <<vars, idVars, pendVars, gateVars, readVars, metVars, logVars>>
\* what the specification of the journal leaves alone
logRest == <<vars, idVars, pendVars, gateVars, readVars, metVars, infoVars>>

NoID == [Timepoint |-> 0, EID |-> <<>>]

NoLoc ==
  [coreCalled |-> FALSE, tokens |-> <<>>, buys |-> <<>>, sells |-> <<>>,
   err |-> NoErr, adapterErr |-> NoErr, adapterCalls |-> 0, id |-> "",
   finished |-> FALSE, recordCalls |-> 0, recordOK |-> FALSE, uid |-> NoID]

CoreInit ==
  /\ pc = [p \in Procs |-> "idle"]
  /\ req = [p \in Procs |-> NoReq]
  /\ loc = [p \in Procs |-> NoLoc]
  /\ replies = [p \in Procs |-> <<>>]
  /\ journal = <<>>
  /\ clock = 0
  /\ chain = [send |-> 0, setRates |-> 0, txs |-> 0]
  /\ exchange = [trade |-> 0, withdraw |-> 0]
  /\ nupd = 0

Init == CoreInit /\ UnitIdle

\* a request arrives and its handler runs up to the call of the core command
Accept(p, r, ok, written) ==
  /\ pc[p] = "idle"
  /\ IF p = 1 THEN TRUE ELSE pc[p - 1] # "idle"
  /\ req' = [req EXCEPT ![p] = r]
  /\ replies' = [replies EXCEPT ![p] = written]
  /\ UNCHANGED <<journal, clock, chain, exchange, nupd, unitVars>>
  /\ IF ok
     THEN pc' = [pc EXCEPT ![p] = r.kind]
     ELSE /\ pc' = [pc EXCEPT ![p] = "done"]
          /\ loc' = [loc EXCEPT ![p] = NoLoc]

HTTPDeposit(p) ==
  \E r \in DepositRequests :
    LET ok == GetExchangeOK(r.exchange) /\ GetTokenOK(r.token) /\ DecodeBigOK(r.amount)
    IN /\ Accept(p, r, ok, IF ok THEN <<>> ELSE <<FALSE>>)
       /\ ok => loc' = [loc EXCEPT ![p] = [NoLoc EXCEPT !.coreCalled = TRUE]]

HTTPWithdraw(p) ==
  \E r \in WithdrawRequests :
    LET ok == GetExchangeOK(r.exchange) /\ GetTokenOK(r.token) /\ DecodeBigOK(r.amount)
    IN /\ Accept(p, r, ok, IF ok THEN <<>> ELSE <<FALSE>>)
       /\ ok => loc' = [loc EXCEPT ![p] = [NoLoc EXCEPT !.coreCalled = TRUE]]

HTTPTrade(p) ==
  \E r \in TradeRequests :
    LET ok == /\ GetExchangeOK(r.exchange)
              /\ GetTokenOK(r.base) /\ GetTokenOK(r.quote)
              /\ ParseFloatOK(r.amount) /\ ParseFloatOK(r.rate)
              /\ r.typ \in {"sell", "buy"}
    IN /\ Accept(p, r, ok, IF ok THEN <<>> ELSE <<FALSE>>)
       /\ ok => loc' = [loc EXCEPT ![p] = [NoLoc EXCEPT !.coreCalled = TRUE]]

HTTPSetRate(p) ==
  \E r \in SetRateRequests :
    LET tokensOK == \A i \in DOMAIN r.tokens : GetTokenOK(r.tokens[i])
        rateErrors == RateErrorReplies(r.buys) \o RateErrorReplies(r.sells)
        ok == tokensOK /\ ParseIntOK(r.block)
        written == IF ~tokensOK THEN <<FALSE>>
                   ELSE IF ~ParseIntOK(r.block) THEN Append(rateErrors, FALSE)
                   ELSE rateErrors
    IN /\ Accept(p, r, ok, written)
       /\ ok => loc' = [loc EXCEPT ![p] =
                  [NoLoc EXCEPT !.coreCalled = TRUE, !.tokens = r.tokens,
                                !.buys = ParseRates(r.buys),
                                !.sells = ParseRates(r.sells)]]

\* Deposit: exchange.Address and HasPendingDeposit
DepositCheck(p) ==
  /\ pc[p] = "deposit"
  /\ LET supported == req[p].token \in DepositAddresses[req[p].exchange]
         branch == DepositBranch(supported,
                     HasPendingDeposit(journal, req[p].token, req[p].exchange))
     IN IF branch = "send"
        THEN /\ pc' = [pc EXCEPT ![p] = "send"]
             /\ loc' = loc
        ELSE /\ pc' = [pc EXCEPT ![p] = "record"]
             /\ loc' = [loc EXCEPT ![p].id = ZeroHash,
                          ![p].err = IF branch = "unsupported" THEN ErrUnsupported
                                     ELSE ErrPending]
  /\ UNCHANGED <<req, replies, journal, clock, chain, exchange, nupd, unitVars>>

\* Deposit: blockchain.Send
DepositSend(p) ==
  /\ pc[p] = "send"
  /\ \E e \in {NoErr} \cup AdapterErrors :
       /\ chain' = [chain EXCEPT !.send = @ + 1,
                                 !.txs = IF e = NoErr THEN @ + 1 ELSE @]
       /\ loc' = [loc EXCEPT ![p].err = e, ![p].adapterErr = e,
                             ![p].adapterCalls = @ + 1,
                             ![p].id = IF e = NoErr THEN TxHash(p)
                                       ELSE ZeroHash]
  /\ pc' = [pc EXCEPT ![p] = "record"]
  /\ UNCHANGED <<req, replies, journal, clock, exchange, nupd, unitVars>>

\* Withdraw: exchange.Address and exchange.Withdraw
WithdrawCall(p) ==
  /\ pc[p] = "withdraw"
  /\ IF req[p].token \notin DepositAddresses[req[p].exchange]
     THEN /\ loc' = [loc EXCEPT ![p].err = ErrUnsupported]
          /\ exchange' = exchange
     ELSE \E e \in {NoErr} \cup AdapterErrors :
            /\ exchange' = [exchange EXCEPT !.withdraw = @ + 1]
            /\ loc' = [loc EXCEPT ![p].err = e, ![p].adapterErr = e,
                                  ![p].adapterCalls = @ + 1,
                                  ![p].id = IF e = NoErr THEN "withdrawal" ELSE ""]
  /\ pc' = [pc EXCEPT ![p] = "record"]
  /\ UNCHANGED <<req, replies, journal, clock, chain, nupd, unitVars>>

\* Trade: exchange.Trade
TradeCall(p) ==
  /\ pc[p] = "trade"
  /\ \E e \in {NoErr} \cup AdapterErrors, fin \in BOOLEAN :
       /\ e # NoErr => ~fin
       /\ loc' = [loc EXCEPT ![p].err = e, ![p].adapterErr = e,
                             ![p].adapterCalls = @ + 1, ![p].finished = fin,
                             ![p].id = IF e = NoErr THEN "order" ELSE ""]
  /\ exchange' = [exchange EXCEPT !.trade = @ + 1]
  /\ pc' = [pc EXCEPT ![p] = "record"]
  /\ UNCHANGED <<req, replies, journal, clock, chain, nupd, unitVars>>

\* SetRates: the length check and blockchain.SetRates
SetRatesCall(p) ==
  /\ pc[p] = "setrates"
  /\ IF ~SameLength(Len(loc[p].tokens), Len(loc[p].buys), Len(loc[p].sells))
     THEN /\ loc' = [loc EXCEPT ![p].err = ErrLength, ![p].id = ZeroHash]
          /\ chain' = chain
     ELSE \E e \in {NoErr} \cup AdapterErrors :
            /\ chain' = [chain EXCEPT !.setRates = @ + 1,
                                      !.txs = IF e = NoErr THEN @ + 1 ELSE @]
            /\ loc' = [loc EXCEPT ![p].err = e, ![p].adapterErr = e,
                                  ![p].adapterCalls = @ + 1,
                                  ![p].id = IF e = NoErr THEN TxHash(p)
                                            ELSE ZeroHash]
  /\ pc' = [pc EXCEPT ![p] = "record"]
  /\ UNCHANGED <<req, replies, journal, clock, exchange, nupd, unitVars>>

\* the activity a command hands to the journal, given the ID it drew
Activity(p, uid) ==
  CASE req[p].kind = "deposit" ->
         DepositActivity(uid, req[p].exchange, req[p].token, loc[p].id, loc[p].err)
    [] req[p].kind = "withdraw" ->
         WithdrawActivity(uid, req[p].exchange, req[p].token, loc[p].err)
    [] req[p].kind = "trade" ->
         TradeActivity(uid, req[p].exchange, loc[p].err, loc[p].finished)
    [] req[p].kind = "setrates" ->
         SetRatesActivity(uid, loc[p].tokens, loc[p].buys, loc[p].sells,
                          loc[p].id, loc[p].err)

\* the external id a command puts into the ID
ExternalID(p) ==
  IF req[p].kind = "deposit"
  THEN <<loc[p].id, req[p].token, FormatAmount(req[p].amount)>>
  ELSE <<loc[p].id>>

\* time.Now: a reading is never below the one before it, and may equal it
Readings(last) == IF last = 0 THEN {1} ELSE {last, last + 1}

\* the tail of every command: timebasedID, activityStorage.Record, return to
\* the handler, which writes the envelope.  The result of Record is not used.
RecordAndReturn(p) ==
  /\ pc[p] = "record"
  /\ \E now \in Readings(clock), stored \in BOOLEAN :
       LET uid == timebasedID(now, ExternalID(p))
       IN /\ clock' = now
          /\ journal' = IF stored THEN JournalRecord(journal, Activity(p, uid))
                        ELSE journal
          /\ loc' = [loc EXCEPT ![p].uid = uid, ![p].recordCalls = @ + 1,
                                ![p].recordOK = stored]
  /\ replies' = [replies EXCEPT ![p] = Append(@, CommandReply(loc[p].err))]
  /\ pc' = [pc EXCEPT ![p] = "done"]
  /\ UNCHANGED <<req, chain, exchange, nupd, unitVars>>

\* the fetcher advances the status of a pending activity
FetcherUpdate ==
  /\ nupd < MaxUpdates
  /\ \E i \in DOMAIN journal :
       /\ IsPending(journal[i])
       /\ \/ \E es \in NextExchangeStatus(journal[i]) :
               journal' = JournalUpdateStatus(journal, i, es, journal[i].mstatus)
          \/ \E ms \in NextMiningStatus(journal[i]) :
               journal' = JournalUpdateStatus(journal, i, journal[i].estatus, ms)
  /\ nupd' = nupd + 1
  /\ UNCHANGED <<pc, req, loc, replies, clock, chain, exchange, unitVars>>

Next ==
  \/ \E p \in Procs : HTTPDeposit(p)
  \/ \E p \in Procs : HTTPWithdraw(p)
  \/ \E p \in Procs : HTTPTrade(p)
  \/ \E p \in Procs : HTTPSetRate(p)
  \/ \E p \in Procs : DepositCheck(p)
  \/ \E p \in Procs : DepositSend(p)
  \/ \E p \in Procs : WithdrawCall(p)
  \/ \E p \in Procs : TradeCall(p)
  \/ \E p \in Procs : SetRatesCall(p)
  \/ \E p \in Procs : RecordAndReturn(p)
  \/ FetcherUpdate

Spec == Init /\ [][Next]_vars

TypeOK ==
  /\ pc \in [Procs -> {"idle", "deposit", "send", "withdraw", "trade",
                       "setrates", "record", "done"}]
  /\ nupd \in 0..MaxUpdates
  /\ Len(journal) <= NumRequests


\* ------------------------------------ specification: the ActivityID text form
\* longest text drawn from the alphabet
MaxLen == 4
Chars == {"0", "1", "|", "a"}
Texts(n) == UNION {[1..k -> Chars] : k \in 0..n}

\* the texts handed to UnmarshalText and to /cancelorder
IdTexts ==
  Texts(MaxLen) \cup
  {FormatUint(MaxUint) \o <<"|", "a">>,
   FormatUint(MaxUint) \o <<"0", "|", "a">>,
   <<"1", "7", "|", "0", "x", "a", "b", "c", "|", "t", "a", "i", "l">>,
   <<"-", "1", "|", "a">>, <<"+", "1", "|", "a">>, <<" ", "1", "|", "a">>}

\* the values handed to MarshalText; the last external id is of the form
\* Deposit gives it, <txhash>|<token>|<amount>
IdValues ==
  [Timepoint : {0, 1, 10, 17, MaxUint},
   EID : Texts(MaxLen - 2) \cup
         {<<"0", "x", "a", "b", "c", "|", "t", "a", "i", "l">>,
          <<"0", "x", "a", "1", "|", "E", "T", "H", "|", "1">>}]

\* what the receiver of UnmarshalText holds before the call
PriorID == [Timepoint |-> 7, EID |-> <<"p">>]

IdInit ==
  /\ CoreInit /\ IdleExcept("id")
  /\ \/ /\ idpc = "text" /\ idorig \in IdTexts
        /\ idtext = idorig /\ idval = PriorID
     \/ /\ idpc = "value" /\ idorig \in IdValues
        /\ idtext = <<>> /\ idval = idorig
  /\ iderr = NoErr /\ ccalls = 0 /\ creplies = <<>>

\* ActivityID.UnmarshalText(idtext) on the receiver idval
UnmarshalText ==
  /\ idpc \in {"text", "marshalled"}
  /\ LET r == StringToActivityID(idtext)
     IN /\ iderr' = r.err
        /\ idval' = IF r.err # NoErr THEN idval
                    ELSE [idval EXCEPT !.Timepoint = r.id.Timepoint,
                                       !.EID = r.id.EID]
  /\ idpc' = IF idpc = "text" THEN "parsed" ELSE "done-value"
  /\ UNCHANGED <<idorig, idtext, ccalls, creplies, idRest>>

\* idval.MarshalText()
Marshal ==
  /\ idpc \in {"value", "parsed"}
  /\ idtext' = MarshalText(idval)
  /\ idpc' = IF idpc = "value" THEN "marshalled" ELSE "done-text"
  /\ UNCHANGED <<idorig, idval, iderr, ccalls, creplies, idRest>>

\* HTTPServer.CancelOrder with order_id = idtext, after the gate let it pass
HTTPCancelOrder ==
  /\ idpc = "text"
  /\ \E exchangeParam \in {"binance", "nowhere"}, e \in {NoErr} \cup AdapterErrors :
       IF ~GetExchangeOK(exchangeParam)
       THEN /\ creplies' = Append(creplies, FALSE)
            /\ UNCHANGED <<iderr, ccalls>>
       ELSE LET r == StringToActivityID(idtext)
            IN IF r.err # NoErr
               THEN /\ iderr' = r.err
                    /\ creplies' = Append(creplies, FALSE)
                    /\ ccalls' = ccalls
               ELSE /\ iderr' = NoErr
                    /\ ccalls' = ccalls + 1
                    /\ creplies' = Append(creplies, e = NoErr)
  /\ idpc' = "cancelled"
  /\ UNCHANGED <<idorig, idtext, idval, idRest>>

IdNext == UnmarshalText \/ Marshal \/ HTTPCancelOrder

SpecActivityID == IdInit /\ [][IdNext]_idVars

\* ------------------------------------- specification: the pending predicates
Actions == {"trade", "deposit", "withdraw", "set_rates"}
ExchangeStatuses == {"", "submitted", "pending", "done", "failed"}
MiningStatuses == {"", "submitted", "mined", "failed"}

PendInit ==
  /\ CoreInit /\ IdleExcept("pending")
  /\ prec \in [action : Actions, estatus : ExchangeStatuses,
               mstatus : MiningStatuses]
  /\ pres = <<>>

\* the result of one predicate is added to those obtained
Obtain(name, value) ==
  /\ name \notin DOMAIN pres
  /\ pres' = [n \in DOMAIN pres \cup {name} |->
                IF n = name THEN value ELSE pres[n]]
  /\ UNCHANGED <<prec, pendRest>>

CallIsExchangePending == Obtain("exchange", IsExchangePending(prec))
CallIsBlockchainPending == Obtain("blockchain", IsBlockchainPending(prec))
CallIsPending == Obtain("pending", IsPending(prec))

PendNext ==
  CallIsExchangePending \/ CallIsBlockchainPending \/ CallIsPending

SpecPending == PendInit /\ [][PendNext]_pendVars

\* --------------------------------------------- specification: the request gate
KeyAmount == <<"a", "m", "o", "u", "n", "t">>
KeyNonce == <<"n", "o", "n", "c", "e">>
KeyTo == <<"t", "o">>
KeyToken == <<"t", "o", "k", "e", "n">>
\* the keys a form may hold, in the order sort.Strings gives them
KeyOrder == <<KeyAmount, KeyNonce, KeyTo, KeyToken>>
Keys == {KeyOrder[i] : i \in DOMAIN KeyOrder}

\* url.Values.Get: the value of the key, "" when the form lacks it
Get(form, k) == IF k \in DOMAIN form THEN form[k] ELSE <<>>

\* url.QueryEscape, one character
EscapeChar(c) ==
  CASE c = " " -> <<"+">>
    [] c = "&" -> <<"%", "2", "6">>
    [] c = "=" -> <<"%", "3", "D">>
    [] c = "|" -> <<"%", "7", "C">>
    [] c = "+" -> <<"%", "2", "B">>
    [] c = "%" -> <<"%", "2", "5">>
    [] OTHER -> <<c>>

RECURSIVE QueryEscape(_)
QueryEscape(t) ==
  IF Len(t) = 0 THEN <<>> ELSE EscapeChar(Head(t)) \o QueryEscape(Tail(t))

RECURSIVE EncodeKeys(_, _)
EncodeKeys(form, keys) ==
  IF Len(keys) = 0 THEN <<>>
  ELSE LET k == Head(keys)
           rest == EncodeKeys(form, Tail(keys))
           pair == QueryEscape(k) \o <<"=">> \o QueryEscape(form[k])
       IN IF k \notin DOMAIN form THEN rest
          ELSE IF Len(rest) = 0 THEN pair
          ELSE pair \o <<"&">> \o rest

\* url.Values.Encode: "k=v" for every key in sorted order, joined by "&"
Encode(form) == EncodeKeys(form, KeyOrder)

\* the secret the server is configured with, and another key
Secret == "secret"
OtherKey == "mallory"
NoHeader == [key |-> "", msg |-> <<>>]

\* Authentication.KNSign: HMAC-SHA512 of the message under the key
KNSign(key, message) == [key |-> key, msg |-> message]

NonceWindow == 10000

IsIntimeUpperBoundOnly(nonce, serverTime) ==
  LET n == ParseInt(nonce)
      difference == Wrap(n.val - Wrap(serverTime))
  IN IF n.err # NoErr THEN FALSE
     ELSE ~(difference > NonceWindow)

\* IsIntime, with the server time it reads
IsIntime(nonce, serverTime) ==
  LET n == ParseInt(nonce)
      difference == Wrap(n.val - Wrap(serverTime))
  IN IF n.err # NoErr THEN FALSE
     ELSE ~(difference < -NonceWindow \/ difference > NonceWindow)

ErrMalformed == "Malformed request package"
ErrNonce == "Your nonce is invalid"
ErrSigned == "Invalid signed token"
MissingReason(k) ==
  CASE k = KeyAmount -> "Required param (amount) is missing. Param name is case sensitive"
    [] k = KeyToken -> "Required param (token) is missing. Param name is case sensitive"
    [] k = KeyNonce -> "Required param (nonce) is missing. Param name is case sensitive"
    [] OTHER -> "Required param (to) is missing. Param name is case sensitive"

\* the requiredParams each handler passes to Authenticated
RequiredParams(ep) ==
  IF ep = "/deposit" THEN <<KeyAmount, KeyToken>> ELSE <<>>

\* the first required parameter the form lacks, 0 when it lacks none
FirstMissing(form, required) ==
  LET missing == {i \in DOMAIN required : Get(form, required[i]) = <<>>}
  IN IF missing = {} THEN 0
     ELSE CHOOSE i \in missing : \A j \in missing : i <= j

AuthenticatedNoSignatureCheck(bad, authEnabled, form, signed, required, now) ==
  IF bad THEN ErrMalformed
  ELSE IF ~authEnabled THEN NoErr
  ELSE IF ~IsIntime(Get(form, KeyNonce), now) THEN ErrNonce
  ELSE IF FirstMissing(form, required) # 0
  THEN MissingReason(required[FirstMissing(form, required)])
  ELSE NoErr

\* HTTPServer.Authenticated: the reason it rejects with, NoErr when it passes
Authenticated(bad, authEnabled, form, signed, required, now) ==
  IF bad THEN ErrMalformed
  ELSE IF ~authEnabled THEN NoErr
  ELSE IF ~IsIntime(Get(form, KeyNonce), now) THEN ErrNonce
  ELSE IF FirstMissing(form, required) # 0
  THEN MissingReason(required[FirstMissing(form, required)])
  ELSE IF signed = KNSign(Secret, Encode(form)) THEN NoErr
  ELSE ErrSigned

\* GetTimepoint is time.Now().UnixNano() / int64(time.Millisecond): the server
\* time spans the int64 range divided by 10^6.  The model divides by less,
\* which admits more server times than the program has.
ClockDivisor == 4
ServerTimes == {20000, MaxInt \div ClockDivisor}

\* changes made to a request between signing and arrival
MaxTampers == 2

\* marks a parameter the form does not hold
Absent == <<"absent">>

NonceChoices(now) ==
  {FormatInt(now + d) : d \in {-15000, -10001, -10000, -5000, 0,
                               5000, 10000, 10001, 15000}} \cup
  {FormatInt(MinInt), FormatInt(MaxInt), FormatInt(MaxInt + 1),
   <<"a", "b", "c">>, Absent}
AmountChoices == {Absent, <<>>, <<"0", "x", "1">>, <<"1">>}
TokenChoices == {Absent, <<"E", "T", "H">>}

\* the form holding the parameters that are not Absent
Form(nonce, amount, to, token) ==
  LET c == [k \in Keys |-> CASE k = KeyNonce -> nonce
                             [] k = KeyAmount -> amount
                             [] k = KeyTo -> to
                             [] OTHER -> token]
  IN [k \in {j \in Keys : c[j] # Absent} |-> c[k]]

GateForms(now) ==
  {Form(n, a, Absent, t) :
     n \in NonceChoices(now), a \in AmountChoices, t \in TokenChoices} \cup
  {Form(FormatInt(now), <<"1">>, <<"2">>, <<"E", "T", "H">>)}

GateInit ==
  /\ CoreInit /\ IdleExcept("gate")
  /\ gpc = "arrived"
  /\ gnow \in ServerTimes
  /\ gauth \in BOOLEAN
  /\ gep \in {"/deposit", "/authdata"}
  /\ gbad \in BOOLEAN
  /\ gsent \in GateForms(gnow)
  /\ gkey \in {Secret, OtherKey, ""}
  /\ gsigned = IF gkey = "" THEN NoHeader ELSE KNSign(gkey, Encode(gsent))
  /\ gform = gsent
  /\ gtampers = 0 /\ greplies = <<>> /\ gdispatched = FALSE

\* the values a parameter is changed to or added with
TamperValues(k, now) ==
  CASE k = KeyAmount -> {<<>>, <<"0", "x", "2">>}
    [] k = KeyNonce -> {FormatInt(now), FormatInt(now - 15000)}
    [] k = KeyTo -> {<<"2">>, <<"2", "&", "t", "o", "k", "e", "n", "=", "E", "T", "H">>}
    [] OTHER -> {<<"K", "N", "C">>}

\* a parameter is removed, added or changed and the header is left as it was
Tamper ==
  /\ gpc = "arrived" /\ gtampers < MaxTampers
  /\ \E k \in Keys :
       \/ /\ k \in DOMAIN gform
          /\ gform' = [j \in DOMAIN gform \ {k} |-> gform[j]]
       \/ \E v \in TamperValues(k, gnow) :
            /\ Get(gform, k) # v \/ k \notin DOMAIN gform
            /\ gform' = [j \in DOMAIN gform \cup {k} |->
                           IF j = k THEN v ELSE gform[j]]
  /\ gtampers' = gtampers + 1
  /\ UNCHANGED <<gpc, gnow, gauth, gep, gbad, gsent, gkey, gsigned, greplies,
                 gdispatched, gateRest>>

\* HTTPServer.Authenticated as the first statement of the handler of gep
Gate ==
  /\ gpc = "arrived"
  /\ LET reason == Authenticated(gbad, gauth, gform, gsigned,
                                 RequiredParams(gep), gnow)
     IN IF reason = NoErr
        THEN /\ gdispatched' = TRUE
             /\ greplies' = greplies
        ELSE /\ gdispatched' = FALSE
             /\ greplies' = Append(greplies, [success |-> FALSE, reason |-> reason])
  /\ gpc' = "gated"
  /\ UNCHANGED <<gnow, gauth, gep, gbad, gsent, gkey, gsigned, gform, gtampers,
                 gateRest>>

GateNext == Tamper \/ Gate

SpecGate == GateInit /\ [][GateNext]_gateVars

\* -------------------------------------------- specification: the read handlers
\* the handlers of /prices, /prices/:base/:quote, /getrates, /authdata,
\* GET /metrics and /exchangeinfo/:exchangeid, after the gate let the request
\* pass
MAX_TIMESPOT == MaxUint

\* c.DefaultQuery("timestamp", ""): what the handler sees of the query
DefaultQuery(q) == IF q = Absent THEN <<>> ELSE q

getTimePointNowWhenAbsent(timestamp, useDefault, now) ==
  IF Len(DefaultQuery(timestamp)) = 0 THEN now
  ELSE IF ParseUint(timestamp).err # NoErr THEN MAX_TIMESPOT
  ELSE ParseUint(timestamp).val

\* getTimePoint, with the time it reads
getTimePoint(timestamp, useDefault, now) ==
  IF Len(DefaultQuery(timestamp)) = 0
  THEN IF useDefault THEN MAX_TIMESPOT ELSE now
  ELSE IF ParseUint(timestamp).err # NoErr THEN MAX_TIMESPOT
  ELSE ParseUint(timestamp).val

SnapshotHandlers == {"AllPrices", "Price", "GetRate", "AuthData"}

Timestamps ==
  {Absent, <<>>, <<"1", "7">>, <<"0">>, <<"a", "b", "c">>, <<"-", "1">>,
   FormatUint(MaxUint), FormatUint(MaxUint + 1)}
NumberTexts == {<<"1">>, <<"a">>, <<>>}

ReadInputs(name) ==
  CASE name \in {"AllPrices", "GetRate", "AuthData"} ->
         {[NoInput EXCEPT !.timestamp = t, !.facadeErr = e] :
            t \in Timestamps, e \in BOOLEAN}
    [] name = "Price" ->
         {[NoInput EXCEPT !.timestamp = t, !.facadeErr = e, !.pairOK = ok] :
            t \in Timestamps, e \in BOOLEAN, ok \in BOOLEAN}
    [] name = "Metrics" ->
         {[NoInput EXCEPT !.tokens = k, !.from = f, !.to = t, !.facadeErr = e] :
            k \in {<<"ETH">>, <<"ETH", "KNC">>, <<"ETH", "XXX">>},
            f \in NumberTexts, t \in NumberTexts, e \in BOOLEAN}
    [] OTHER ->
         {[NoInput EXCEPT !.exchange = x, !.facadeErr = e, !.infoNil = n] :
            x \in {"binance", "nowhere"}, e \in BOOLEAN, n \in BOOLEAN}

ReadInit ==
  /\ CoreInit /\ IdleExcept("read")
  /\ hpc = "arrived"
  /\ hname \in SnapshotHandlers \cup {"Metrics", "GetExchangeInfo"}
  /\ hin \in ReadInputs(hname)
  /\ hnow \in {20000, 20001}
  /\ hreplies = <<>> /\ htp = <<>> /\ herrs = 0 /\ hpanic = FALSE

\* the handler returns having written the envelopes w
Answer(w, timepoints, errors, panicked) ==
  /\ hpc' = "done"
  /\ hreplies' = w
  /\ htp' = timepoints
  /\ herrs' = errors
  /\ hpanic' = panicked
  /\ UNCHANGED <<hname, hin, hnow, readRest>>

\* AllPrices, GetRate, AuthData: the facade is asked at getTimePoint(c, true)
Snapshot(name) ==
  /\ hpc = "arrived" /\ hname = name
  /\ Answer(<<~hin.facadeErr>>,
            <<getTimePoint(hin.timestamp, TRUE, hnow)>>,
            IF hin.facadeErr THEN 1 ELSE 0, FALSE)

HTTPAllPrices == Snapshot("AllPrices")
HTTPGetRate == Snapshot("GetRate")
HTTPAuthData == Snapshot("AuthData")

HTTPPrice ==
  /\ hpc = "arrived" /\ hname = "Price"
  /\ IF ~hin.pairOK
     THEN Answer(<<FALSE>>, <<>>, 1, FALSE)
     ELSE Answer(<<~hin.facadeErr>>,
                 <<getTimePoint(hin.timestamp, TRUE, hnow)>>,
                 IF hin.facadeErr THEN 1 ELSE 0, FALSE)

\* one error envelope when the value is an error, none otherwise
ErrorEnvelope(isErr) == IF isErr THEN <<FALSE>> ELSE <<>>

HTTPMetrics ==
  /\ hpc = "arrived" /\ hname = "Metrics"
  /\ LET tokensErr == \E i \in DOMAIN hin.tokens : ~GetTokenOK(hin.tokens[i])
         fromErr == ParseUint(hin.from).err # NoErr
         toErr == ParseUint(hin.to).err # NoErr
         count(b) == IF b THEN 1 ELSE 0
     IN IF tokensErr
        THEN Answer(<<FALSE>>, <<>>, 1, FALSE)
        ELSE Answer(ErrorEnvelope(fromErr) \o ErrorEnvelope(toErr) \o
                    ErrorEnvelope(hin.facadeErr) \o <<TRUE>>,
                    <<>>,
                    count(fromErr) + count(toErr) + count(hin.facadeErr), FALSE)

HTTPGetExchangeInfo ==
  /\ hpc = "arrived" /\ hname = "GetExchangeInfo"
  /\ IF ~GetExchangeOK(hin.exchange)
     THEN Answer(<<FALSE>>, <<>>, 1, FALSE)
     ELSE IF ~hin.facadeErr
     THEN Answer(<<TRUE>>, <<>>, 0, FALSE)
     ELSE IF hin.infoNil
     THEN Answer(<<FALSE>>, <<>>, 1, TRUE)
     ELSE Answer(<<FALSE, TRUE>>, <<>>, 1, FALSE)

ReadNext ==
  \/ HTTPAllPrices \/ HTTPGetRate \/ HTTPAuthData \/ HTTPPrice
  \/ HTTPMetrics \/ HTTPGetExchangeInfo

SpecRead == ReadInit /\ [][ReadNext]_readVars

\* ------------------------------------------- specification: the metric store
\* POST /metrics (HTTPServer.StoreMetrics) and the RamMetricStorage behind it.
\* The program keeps MAX_CAPACITY = 1000 entries; the model keeps the name
\* and a capacity that a few requests fill.
MAX_CAPACITY == 2
\* requests served, each by its own goroutine: one more than the store holds
MetProcs == 1..(MAX_CAPACITY + 1)

RECURSIVE SplitOn(_, _)
\* strings.Split(s, sep) for a separator of one character
SplitOn(s, sep) ==
  IF \A i \in DOMAIN s : s[i] # sep THEN <<s>>
  ELSE LET k == CHOOSE i \in DOMAIN s :
                  s[i] = sep /\ \A j \in 1..(i - 1) : s[j] # sep
       IN <<SubSeq(s, 1, k - 1)>> \o SplitOn(SubSeq(s, k + 1, Len(s)), sep)

\* strconv.ParseFloat(s, 64) on texts that hold no sign, point or exponent:
\* a non-empty run of digits is its value, anything else a syntax error
ParseFloat(s) ==
  IF Len(s) = 0 \/ \E i \in DOMAIN s : ~IsDigit(s[i])
  THEN [err |-> ErrSyntax, val |-> 0]
  ELSE [err |-> NoErr, val |-> Magnitude(s, MaxUint)]

ErrFormat == "submitted data is not in correct format"
ErrAfpMid == "Afp mid is not float64"
ErrSpread == "Spread is not float64"

\* metricEntry.Data[token] = value
Put(m, token, value) ==
  [k \in DOMAIN m \cup {token} |-> IF k = token THEN value ELSE m[k]]

RECURSIVE ParseTokenData(_, _)
\* StoreMetrics: the loop over the "|"-separated items of the data parameter,
\* which returns at the first item that is not <token>_<afpmid>_<spread>
ParseTokenData(items, acc) ==
  IF Len(items) = 0 THEN [err |-> NoErr, data |-> acc]
  ELSE LET parts == SplitOn(items[1], "_")
       IN IF Len(parts) # 3 THEN [err |-> ErrFormat, data |-> acc]
          ELSE IF ParseFloat(parts[2]).err # NoErr
          THEN [err |-> ErrAfpMid, data |-> acc]
          ELSE IF ParseFloat(parts[3]).err # NoErr
          THEN [err |-> ErrSpread, data |-> acc]
          ELSE ParseTokenData(Tail(items),
                 Put(acc, parts[1], [AfpMid |-> ParseFloat(parts[2]).val,
                                     Spread |-> ParseFloat(parts[3]).val]))

StoreMetricKeepOldest(data, entry) ==
  LET appended == Append(data, entry)
      first == Len(appended) - MAX_CAPACITY
  IN IF first > 0 THEN SubSeq(appended, 1, MAX_CAPACITY) ELSE appended

\* RamMetricStorage.StoreMetric: the buffer after the call
StoreMetric(data, entry) ==
  LET appended == Append(data, entry)
      first == Len(appended) - MAX_CAPACITY
  IN IF first > 0 THEN SubSeq(appended, first + 1, Len(appended)) ELSE appended

RECURSIVE GetMetricFrom(_, _, _, _, _, _)
\* RamMetricStorage.GetMetric: the loop from index i down, with its break
GetMetricFrom(data, i, tokens, fromTime, toTime, imResult) ==
  IF i = 0 THEN imResult
  ELSE IF fromTime <= data[i].Timestamp /\ data[i].Timestamp <= toTime
  THEN GetMetricFrom(data, i - 1, tokens, fromTime, toTime,
         [tok \in tokens |->
            IF tok \in DOMAIN data[i].Data
            THEN Append(imResult[tok],
                        [Timestamp |-> data[i].Timestamp,
                         AfpMid |-> data[i].Data[tok].AfpMid,
                         Spread |-> data[i].Data[tok].Spread])
            ELSE imResult[tok]])
  ELSE IF data[i].Timestamp <= fromTime THEN imResult
  ELSE GetMetricFrom(data, i - 1, tokens, fromTime, toTime, imResult)

\* RamMetricStorage.GetMetric
GetMetric(data, tokens, fromTime, toTime) ==
  GetMetricFrom(data, Len(data), tokens, fromTime, toTime,
                [tok \in tokens |-> <<>>])

NoMetricRequest == [authOK |-> FALSE, timestamp |-> <<>>, data |-> <<>>]
NoEntry == [Timestamp |-> 0, Data |-> <<>>]
NoMetricLoc == [entry |-> NoEntry, replies |-> <<>>, stored |-> FALSE]
NoRead == [tokens |-> {}, fromTime |-> 0, toTime |-> 0, seen |-> <<>>, result |-> <<>>]

MetricRequests ==
  {[authOK |-> x[1], timestamp |-> x[2], data |-> x[3]] :
     x \in {<<TRUE, <<"1">>, <<"E", "_", "1", "_", "2", "|", "K", "_", "3", "_", "4">>>>,
            <<TRUE, <<"2">>, <<"E", "_", "5", "_", "6">>>>,
            <<TRUE, <<"x">>, <<"E", "_", "7", "_", "8">>>>,
            <<TRUE, <<"1">>, <<"E", "_", "1">>>>,
            <<TRUE, <<"2">>, <<"E", "_", "x", "_", "2">>>>,
            <<TRUE, <<"1">>, <<"E", "_", "1", "_", "2", "|", "K", "_", "3", "_", "x">>>>,
            <<TRUE, <<"x">>, <<>>>>,
            <<FALSE, <<"1">>, <<"E", "_", "1", "_", "2">>>>}}

MetricQueries ==
  {[tokens |-> x[1], fromTime |-> x[2], toTime |-> x[3]] :
     x \in {<<{<<"E">>}, 0, 2>>, <<{<<"E">>}, 1, 1>>, <<{<<"E">>}, 2, 2>>,
            <<{<<"E">>, <<"K">>}, 1, 2>>, <<{<<"K">>}, 0, 0>>}}

MetInit ==
  /\ CoreInit /\ IdleExcept("metric")
  /\ mpc = [p \in MetProcs |-> "idle"]
  /\ mreq = [p \in MetProcs |-> NoMetricRequest]
  /\ mloc = [p \in MetProcs |-> NoMetricLoc]
  /\ mmu = 0 /\ mdata = <<>> /\ mstored = <<>> /\ mread = NoRead

\* HTTPServer.StoreMetrics up to the call of StoreMetric
StoreMetrics(p) ==
  /\ mpc[p] = "idle"
  /\ IF p = 1 THEN TRUE ELSE mpc[p - 1] # "idle"
  /\ \E r \in MetricRequests :
       LET timestamp == ParseUint(r.timestamp)
           written == ErrorEnvelope(timestamp.err # NoErr)
           parsed == ParseTokenData(SplitOn(r.data, "|"), <<>>)
       IN /\ mreq' = [mreq EXCEPT ![p] = r]
          /\ IF ~r.authOK
             THEN /\ mpc' = [mpc EXCEPT ![p] = "done"]
                  /\ mloc' = [mloc EXCEPT ![p].replies = <<FALSE>>]
             ELSE IF parsed.err # NoErr
             THEN /\ mpc' = [mpc EXCEPT ![p] = "done"]
                  /\ mloc' = [mloc EXCEPT ![p].replies = Append(written, FALSE)]
             ELSE /\ mpc' = [mpc EXCEPT ![p] = "lock"]
                  /\ mloc' = [mloc EXCEPT ![p].replies = written,
                                ![p].entry = [Timestamp |-> timestamp.val,
                                              Data |-> parsed.data]]
  /\ UNCHANGED <<mmu, mdata, mstored, mread, metRest>>

\* StoreMetric: self.mu.Lock()
StoreMetricLock(p) ==
  /\ mpc[p] = "lock" /\ mmu = 0
  /\ mmu' = p
  /\ mpc' = [mpc EXCEPT ![p] = "locked"]
  /\ UNCHANGED <<mreq, mloc, mdata, mstored, mread, metRest>>

\* StoreMetric under the lock, its return, and the envelope StoreMetrics writes
StoreMetricBody(p) ==
  /\ mpc[p] = "locked" /\ mmu = p
  /\ mdata' = StoreMetric(mdata, mloc[p].entry)
  /\ mstored' = Append(mstored, mloc[p].entry)
  /\ mmu' = 0
  /\ mloc' = [mloc EXCEPT ![p].replies = Append(@, TRUE), ![p].stored = TRUE]
  /\ mpc' = [mpc EXCEPT ![p] = "done"]
  /\ UNCHANGED <<mreq, mread, metRest>>

\* GetMetric, which holds the read lock from its first line to its return
GetMetricCall ==
  /\ mmu = 0
  /\ \E q \in MetricQueries :
       mread' = [tokens |-> q.tokens, fromTime |-> q.fromTime, toTime |-> q.toTime,
                 seen |-> mdata,
                 result |-> GetMetric(mdata, q.tokens, q.fromTime, q.toTime)]
  /\ UNCHANGED <<mpc, mreq, mloc, mmu, mdata, mstored, metRest>>

MetNext ==
  \/ \E p \in MetProcs : StoreMetrics(p)
  \/ \E p \in MetProcs : StoreMetricLock(p)
  \/ \E p \in MetProcs : StoreMetricBody(p)
  \/ GetMetricCall

SpecMetric == MetInit /\ [][MetNext]_metVars

\* --------------------------------------------- specification: ExchangeInfo
\* The precision/limit table of one exchange: Update, which refreshes one
\* pair, Get, which reads one pair, and GetData, whose result the
\* /exchangeinfo handler serializes.
\* refreshes made after startup
MaxRefresh == 2

Pairs == {"ETH-KNC", "ETH-OMG"}
\* the ExchangePrecisionLimit values a refresh may bring
Limits == {1, 2}
\* the table after the refresh at startup
StartupTable == [pair \in {"ETH-KNC"} |-> 1]

NoUpdate == [pair |-> "", data |-> 0, made |-> 0]
NoSeen ==
  [table |-> <<>>, raced |-> FALSE, crashed |-> FALSE, out |-> <<>>,
   found |-> FALSE, limit |-> 0]

\* sync.RWMutex: Lock waits for the writer and for every reader to leave
CanLock(mu) == ~mu.writer /\ mu.readers = {}
\* sync.RWMutex: RLock waits for the writer to leave
CanRLock(mu) == ~mu.writer

\* self.data[pair] = data
MapAssign(table, pair, data) ==
  [k \in DOMAIN table \cup {pair} |-> IF k = pair THEN data ELSE table[k]]

\* what serializing a map yields when it was written during the iteration:
\* the runtime may stop the process ("concurrent map iteration and map
\* write"), or the iteration sees the entries of before or of after the write
RacedOutcomes(before, now) ==
  {[crashed |-> TRUE, out |-> <<>>],
   [crashed |-> FALSE, out |-> before],
   [crashed |-> FALSE, out |-> now]}

InfoInit ==
  /\ CoreInit /\ IdleExcept("info")
  /\ xpc = [upd |-> "idle", all |-> "idle", one |-> "idle"]
  /\ xmu = [writer |-> FALSE, readers |-> {}]
  /\ xdata = StartupTable
  /\ xupd = NoUpdate
  /\ xseen = [all |-> NoSeen, one |-> NoSeen]

\* a refresh on demand calls ExchangeInfo.Update(pair, data)
UpdateCall ==
  /\ xpc.upd = "idle" /\ xupd.made < MaxRefresh
  /\ \E pair \in Pairs, data \in Limits :
       xupd' = [xupd EXCEPT !.pair = pair, !.data = data]
  /\ xpc' = [xpc EXCEPT !.upd = "lock"]
  /\ UNCHANGED <<xmu, xdata, xseen, infoRest>>

\* Update: self.mu.Lock()
UpdateLock ==
  /\ xpc.upd = "lock" /\ CanLock(xmu)
  /\ xmu' = [xmu EXCEPT !.writer = TRUE]
  /\ xpc' = [xpc EXCEPT !.upd = "write"]
  /\ UNCHANGED <<xdata, xupd, xseen, infoRest>>

\* Update: the assignment to the map and the deferred Unlock
UpdateWrite ==
  /\ xpc.upd = "write"
  /\ xdata' = MapAssign(xdata, xupd.pair, xupd.data)
  /\ xmu' = [xmu EXCEPT !.writer = FALSE]
  /\ xupd' = [xupd EXCEPT !.made = @ + 1]
  /\ xseen' = IF xpc.all = "iterate"
              THEN [xseen EXCEPT !.all.raced = TRUE]
              ELSE xseen
  /\ xpc' = [xpc EXCEPT !.upd = "idle"]
  /\ UNCHANGED infoRest

\* GetExchangeInfo: exchangeInfo.GetData() takes the read lock
GetDataRLock ==
  /\ xpc.all = "idle" /\ CanRLock(xmu)
  /\ xmu' = [xmu EXCEPT !.readers = @ \cup {"all"}]
  /\ xseen' = [xseen EXCEPT !.all = NoSeen]
  /\ xpc' = [xpc EXCEPT !.all = "rlocked"]
  /\ UNCHANGED <<xdata, xupd, infoRest>>

\* GetData: return self.data, the map itself, and the deferred RUnlock
GetDataReturn ==
  /\ xpc.all = "rlocked"
  /\ xmu' = [xmu EXCEPT !.readers = @ \ {"all"}]
  /\ xpc' = [xpc EXCEPT !.all = "holding"]
  /\ UNCHANGED <<xdata, xupd, xseen, infoRest>>

\* GetExchangeInfo: c.JSON starts to iterate over the map it was given
SerializeBegin ==
  /\ xpc.all = "holding"
  /\ xseen' = [xseen EXCEPT !.all.table = xdata]
  /\ xpc' = [xpc EXCEPT !.all = "iterate"]
  /\ UNCHANGED <<xmu, xdata, xupd, infoRest>>

\* GetExchangeInfo: c.JSON finishes the iteration and the envelope
SerializeEnd ==
  /\ xpc.all = "iterate"
  /\ \E o \in IF xseen.all.raced
              THEN RacedOutcomes(xseen.all.table, xdata)
              ELSE {[crashed |-> FALSE, out |-> xdata]} :
       xseen' = [xseen EXCEPT !.all.out = o.out, !.all.crashed = o.crashed]
  /\ xpc' = [xpc EXCEPT !.all = "idle"]
  /\ UNCHANGED <<xmu, xdata, xupd, infoRest>>

\* GetPairInfo: ExchangeInfo.Get(pair) takes the read lock
GetRLock ==
  /\ xpc.one = "idle" /\ CanRLock(xmu)
  /\ xmu' = [xmu EXCEPT !.readers = @ \cup {"one"}]
  /\ xpc' = [xpc EXCEPT !.one = "rlocked"]
  /\ UNCHANGED <<xdata, xupd, xseen, infoRest>>

\* Get: the lookup and the deferred RUnlock
GetRead ==
  /\ xpc.one = "rlocked"
  /\ \E pair \in Pairs :
       xseen' = [xseen EXCEPT !.one =
                   [NoSeen EXCEPT !.found = pair \in DOMAIN xdata,
                                  !.limit = IF pair \in DOMAIN xdata
                                            THEN xdata[pair] ELSE 0]]
  /\ xmu' = [xmu EXCEPT !.readers = @ \ {"one"}]
  /\ xpc' = [xpc EXCEPT !.one = "idle"]
  /\ UNCHANGED <<xdata, xupd, infoRest>>

InfoNext ==
  \/ UpdateCall \/ UpdateLock \/ UpdateWrite
  \/ GetDataRLock \/ GetDataReturn \/ SerializeBegin \/ SerializeEnd
  \/ GetRLock \/ GetRead

SpecInfo == InfoInit /\ [][InfoNext]_infoVars

\* ----------------------------------------- specification: the pending scan
\* The journal under record and update_status, and the handler of
\* /immediate-pending-activities, which answers with scan_pending.
\* activities recorded
MaxRecords == 2
\* status updates made
MaxStatusUpdates == 2

\* the activities the four commands can hand to record at time now
CommandActivities(now) ==
  {DepositActivity(timebasedID(now, <<tx, "ETH", "1">>), "binance", "ETH", tx, e) :
     tx \in {ZeroHash}, e \in {ErrUnsupported, ErrPending} \cup AdapterErrors}
  \cup {DepositActivity(timebasedID(now, <<"0xa1", "ETH", "1">>), "binance",
                        "ETH", "0xa1", NoErr)}
  \cup {WithdrawActivity(timebasedID(now, <<IF e = NoErr THEN "withdrawal" ELSE "">>),
                         "binance", "ETH", e) : e \in {NoErr} \cup AdapterErrors}
  \cup {TradeActivity(timebasedID(now, <<IF x[1] = NoErr THEN "order" ELSE "">>),
                      "binance", x[1], x[2]) :
          x \in {<<NoErr, TRUE>>, <<NoErr, FALSE>>, <<"timeout", FALSE>>}}
  \cup {SetRatesActivity(timebasedID(now, <<IF e = NoErr THEN "0xa1" ELSE ZeroHash>>),
                         <<"KNC">>, <<"0x1">>, <<"0x1">>,
                         IF e = NoErr THEN "0xa1" ELSE ZeroHash, e) :
          e \in {NoErr} \cup AdapterErrors}

NoScan == [asked |-> FALSE, success |-> FALSE, data |-> <<>>]

PendingReplyNoData(data, failed) ==
  [asked |-> TRUE, success |-> ~failed, data |-> <<>>]

\* ImmediatePendingActivities: the envelope written for what
\* GetPendingActivities returned
PendingReply(data, failed) ==
  IF failed THEN [asked |-> TRUE, success |-> FALSE, data |-> <<>>]
  ELSE [asked |-> TRUE, success |-> TRUE, data |-> data]

LogInit ==
  /\ CoreInit /\ IdleExcept("journal")
  /\ jlog = <<>> /\ jscan = NoScan /\ jnupd = 0

\* a command records its activity
Record ==
  /\ Len(jlog) < MaxRecords
  /\ \E a \in CommandActivities(Len(jlog) + 1) : jlog' = JournalRecord(jlog, a)
  /\ jscan' = NoScan
  /\ UNCHANGED <<jnupd, logRest>>

\* the fetcher updates the status of a pending activity
UpdateStatus ==
  /\ jnupd < MaxStatusUpdates
  /\ \E i \in DOMAIN jlog :
       /\ IsPending(jlog[i])
       /\ \/ \E es \in NextExchangeStatus(jlog[i]) :
               jlog' = JournalUpdateStatus(jlog, i, es, jlog[i].mstatus)
          \/ \E ms \in NextMiningStatus(jlog[i]) :
               jlog' = JournalUpdateStatus(jlog, i, jlog[i].estatus, ms)
  /\ jnupd' = jnupd + 1
  /\ jscan' = NoScan
  /\ UNCHANGED logRest

\* HTTPServer.ImmediatePendingActivities, after the gate let the request pass
ImmediatePendingActivities ==
  /\ \E failed \in BOOLEAN :
       jscan' = PendingReply(GetPendingActivities(jlog), failed)
  /\ UNCHANGED <<jlog, jnupd, logRest>>

LogNext == Record \/ UpdateStatus \/ ImmediatePendingActivities

SpecJournal == LogInit /\ [][LogNext]_logVars

\* ------------------------------------------------------------------- claims
SameKey(r, token, exch) ==
  r.action = "deposit" /\ r.token = token /\ r.destination = exch

\* the step in which a Deposit call is turned down for a pending deposit, and
\* the step in which that call records and returns
RejectedAtCheck(p) ==
  pc[p] = "deposit" /\ pc'[p] = "record" /\ loc'[p].err = ErrPending

RejectedReturns(p) ==
  /\ req[p].kind = "deposit"
  /\ pc[p] = "record" /\ pc'[p] = "done"
  /\ loc[p].err = ErrPending

FailedStatus(r) ==
  IF r.action \in {"trade", "withdraw"} THEN r.estatus = "failed"
  ELSE r.mstatus = "failed"

CallsOf(kind) ==
  Cardinality({p \in Procs : req[p].kind = kind /\ loc[p].adapterCalls = 1})

\* C1: in every reachable state no two deposit records for the same
\* (token, exchange) are both pending.
C1_AtMostOnePendingDeposit ==
  \A i, j \in DOMAIN journal :
    (i # j /\ journal[i].action = "deposit"
           /\ SameKey(journal[j], journal[i].token, journal[i].destination))
      => ~(IsPending(journal[i]) /\ IsPending(journal[j]))

\* C2: a Deposit that makes its check while the journal holds a deposit for the
\* same (token, exchange) that succeeded and is still pending is turned down
\* with the pending-deposit error without calling blockchain.Send, and the
\* handler then answers success:false.
C2_SequentialDedup ==
  [][\A p \in Procs :
       /\ ( /\ pc[p] = "deposit" /\ pc'[p] # "deposit"
            /\ \E i \in DOMAIN journal :
                 /\ SameKey(journal[i], req[p].token, req[p].exchange)
                 /\ journal[i].error = NoErr
                 /\ IsPending(journal[i]) )
          => (pc'[p] = "record" /\ loc'[p].err = ErrPending /\ chain' = chain)
       /\ RejectedReturns(p)
          => ( /\ replies'[p] = <<FALSE>>
               /\ loc'[p].adapterCalls = 0
               /\ chain' = chain )]_vars

C2_Witness ==
  \E p, q \in Procs :
    /\ p # q /\ pc[p] = "done" /\ pc[q] = "done"
    /\ req[p].kind = "deposit" /\ req[q] = req[p]
    /\ loc[p].err = NoErr /\ loc[p].adapterCalls = 1
    /\ loc[q].err = ErrPending /\ replies[q] = <<FALSE>>
    /\ \E i \in DOMAIN journal :
         journal[i].id = loc[p].uid /\ IsPending(journal[i])

\* C3 as stated: a Deposit turned down for a pending deposit leaves the journal
\* and the chain exactly as they were.
C3_RejectedNoSideEffects ==
  [][\A p \in Procs :
       (RejectedAtCheck(p) \/ RejectedReturns(p))
         => (journal' = journal /\ chain' = chain)]_vars

\* C3 amended: a Deposit turned down for a pending deposit sends nothing to the
\* chain and changes no record that exists; the one thing it may add to the
\* journal is its own record, a deposit with the zero tx hash, the
\* pending-deposit error and mining status failed, which is not pending.
C3_RejectedRecordsFailure ==
  [][\A p \in Procs :
       /\ RejectedAtCheck(p) => (journal' = journal /\ chain' = chain)
       /\ RejectedReturns(p)
          => /\ chain' = chain
             /\ \/ journal' = journal /\ ~loc'[p].recordOK
                \/ /\ loc'[p].recordOK
                   /\ Len(journal') = Len(journal) + 1
                   /\ SubSeq(journal', 1, Len(journal)) = journal
                   /\ LET r == journal'[Len(journal')]
                      IN /\ SameKey(r, req[p].token, req[p].exchange)
                         /\ r.id = loc'[p].uid
                         /\ r.tx = ZeroHash
                         /\ r.error = ErrPending
                         /\ r.estatus = "" /\ r.mstatus = "failed"
                         /\ ~IsPending(r)]_vars

C3_Witness ==
  \E p \in Procs, i \in DOMAIN journal :
    /\ pc[p] = "done" /\ req[p].kind = "deposit" /\ loc[p].err = ErrPending
    /\ journal[i].id = loc[p].uid /\ journal[i].error = ErrPending

\* C4: every set_rates activity in the journal has as many buys and as many
\* sells as it has tokens.
C4_SetRatesLengths ==
  \A i \in DOMAIN journal :
    journal[i].action = "set_rates"
      => (journal[i].nbuys = journal[i].ntokens /\ journal[i].nsells = journal[i].ntokens)

\* C5: SetRates called with lists that are not all of one length returns the
\* length-mismatch error and does not call blockchain.SetRates, and every
\* envelope the handler writes for the request says success:false.
C5_LengthMismatchRejected ==
  /\ chain.setRates = CallsOf("setrates")
  /\ \A p \in Procs :
       ( /\ req[p].kind = "setrates" /\ pc[p] \in {"record", "done"}
         /\ ~(Len(loc[p].tokens) = Len(loc[p].buys) /\ Len(loc[p].buys) = Len(loc[p].sells)) )
       => /\ loc[p].err = ErrLength
          /\ loc[p].adapterCalls = 0
          /\ loc[p].id = ZeroHash
          /\ pc[p] = "done"
             => (replies[p] # <<>> /\ \A k \in DOMAIN replies[p] : ~replies[p][k])

C5_Witness ==
  \E p \in Procs :
    /\ pc[p] = "done" /\ req[p].kind = "setrates"
    /\ Len(loc[p].tokens) = 2 /\ Len(loc[p].buys) = 1 /\ Len(loc[p].sells) = 2
    /\ loc[p].err = ErrLength /\ replies[p] = <<FALSE>>

HasUnparsableValue(r) ==
  CASE r.kind \in {"deposit", "withdraw"} -> ~DecodeBigOK(r.amount)
    [] r.kind = "trade" -> ~ParseFloatOK(r.amount) \/ ~ParseFloatOK(r.rate)
    [] r.kind = "setrates" ->
         \/ \E k \in DOMAIN r.buys : ~DecodeBigOK(r.buys[k])
         \/ \E k \in DOMAIN r.sells : ~DecodeBigOK(r.sells[k])
    [] OTHER -> FALSE

\* C6: a request with an amount or a rate that does not parse never reaches the
\* core: no command is invoked, no adapter is called, nothing is recorded.
C6_UnparsableRejectedBeforeCore ==
  \A p \in Procs :
    HasUnparsableValue(req[p])
      => ( /\ ~loc[p].coreCalled
           /\ loc[p].adapterCalls = 0
           /\ loc[p].recordCalls = 0 )

\* C7: a command whose journal Record failed returns an error to its caller.
C7_RecordFailurePropagated ==
  \A p \in Procs :
    (pc[p] = "done" /\ loc[p].recordCalls = 1 /\ ~loc[p].recordOK)
      => loc[p].err # NoErr

\* C8: a command that has returned issued exactly one Record, and the journal
\* holds the activity whose ID it returned.
C8_RecordedBeforeReturn ==
  \A p \in Procs :
    (pc[p] = "done" /\ loc[p].coreCalled)
      => ( /\ loc[p].recordCalls = 1
           /\ \E i \in DOMAIN journal : journal[i].id = loc[p].uid )

\* C9: a command invokes its adapter at most once; when the adapter failed the
\* command returns the adapter's error as it is, and the activity it recorded
\* carries that error and a failed status.
C9_NoRetrySameError ==
  /\ chain.send = CallsOf("deposit")
  /\ chain.setRates = CallsOf("setrates")
  /\ exchange.trade = CallsOf("trade")
  /\ exchange.withdraw = CallsOf("withdraw")
  /\ \A p \in Procs :
       /\ loc[p].adapterCalls <= 1
       /\ (pc[p] = "done" /\ loc[p].adapterErr # NoErr)
          => /\ loc[p].err = loc[p].adapterErr
             /\ loc[p].recordOK
                => \E i \in DOMAIN journal :
                     /\ journal[i].id = loc[p].uid
                     /\ journal[i].error = loc[p].adapterErr
                     /\ FailedStatus(journal[i])

C9_Witness ==
  \E p \in Procs, i \in DOMAIN journal :
    /\ pc[p] = "done" /\ req[p].kind = "trade"
    /\ loc[p].adapterErr \in AdapterErrors /\ loc[p].recordOK
    /\ journal[i].id = loc[p].uid /\ journal[i].estatus = "failed"

\* C10: activities issued later carry strictly larger timepoints.
C10_TimepointsStrictlyIncreasing ==
  \A i, j \in DOMAIN journal :
    i < j => journal[i].id.Timepoint < journal[j].id.Timepoint

\* C11: a text that StringToActivityID accepts comes back unchanged when the
\* parsed ID is serialized with MarshalText.
C11_ParseThenMarshalIsIdentity ==
  (idpc = "done-text" /\ iderr = NoErr) => idtext = idorig

\* C12: an ActivityID (t, e), whatever '|' characters e holds, comes back
\* unchanged when it is serialized with MarshalText and the text is parsed.
C12_MarshalThenParseIsIdentity ==
  idpc = "done-value" => (iderr = NoErr /\ idval = idorig)

C12_Witness ==
  /\ idpc = "done-value"
  /\ idorig.EID = <<"0", "x", "a", "1", "|", "E", "T", "H", "|", "1">>
  /\ idorig.Timepoint = 17
  /\ idval = idorig

IsU64Decimal(t) ==
  /\ Len(t) > 0
  /\ \A i \in DOMAIN t : IsDigit(t[i])
  /\ Magnitude(t, MaxUint) <= MaxUint

Malformed(s) ==
  \/ \A i \in DOMAIN s : s[i] # "|"
  \/ LET k == CHOOSE i \in DOMAIN s :
                s[i] = "|" /\ \A j \in 1..(i - 1) : s[j] # "|"
     IN ~IsU64Decimal(SubSeq(s, 1, k - 1))

\* C13: parsing a text with no '|', or whose part before the first '|' is not
\* a u64 decimal, gives an error and leaves the receiver of UnmarshalText as
\* it was; /cancelorder with such an order_id writes one success:false
\* envelope and does not call the exchange.
C13_MalformedRejected ==
  /\ (idpc \in {"parsed", "done-text"} /\ Malformed(idorig))
       => (iderr # NoErr /\ idval = PriorID)
  /\ (idpc = "cancelled" /\ Malformed(idorig))
       => (creplies = <<FALSE>> /\ ccalls = 0)

C13_Witness ==
  /\ idpc = "cancelled"
  /\ idorig = <<"a", "|", "1">>
  /\ iderr = ErrSyntax
  /\ creplies = <<FALSE>> /\ ccalls = 0

\* the exchange-pending table of the data model
ExchangePendingTable(r) ==
  IF r.action = "deposit"
  THEN r.estatus \in {"", "pending"} /\ r.mstatus # "failed"
  ELSE r.estatus \in {"", "submitted"} /\ r.mstatus # "failed"

\* C14: for trade, withdraw and deposit and every pair of statuses,
\* IsExchangePending gives what the exchange-pending table gives.
C14_ExchangePendingAgreesWithTable ==
  ("exchange" \in DOMAIN pres /\ prec.action \in {"trade", "withdraw", "deposit"})
    => (pres["exchange"] <=> ExchangePendingTable(prec))

\* C15: for every action and every pair of statuses, IsPending is false
\* exactly when IsExchangePending and IsBlockchainPending are both false.
C15_TerminalIffBothPredicatesFalse ==
  DOMAIN pres = {"exchange", "blockchain", "pending"}
    => (~pres["pending"] <=> (~pres["exchange"] /\ ~pres["blockchain"]))

\* the integer a text denotes, read without a width
IsIntegerText(t) ==
  LET body == IF Len(t) > 0 /\ t[1] \in {"+", "-"} THEN Tail(t) ELSE t
  IN Len(body) > 0 /\ \A i \in DOMAIN body : IsDigit(body[i])

IntegerOf(t) ==
  LET body == IF t[1] \in {"+", "-"} THEN Tail(t) ELSE t
      m == Magnitude(body, 4 * MaxUint)
  IN IF t[1] = "-" THEN -m ELSE m

InWindow(t, now) ==
  /\ IsIntegerText(t)
  /\ IntegerOf(t) - now <= NonceWindow
  /\ now - IntegerOf(t) <= NonceWindow

AuthReasons ==
  {ErrMalformed, ErrNonce, ErrSigned} \cup {MissingReason(k) : k \in Keys}

\* C16: with authentication enabled, a request whose form differs from the
\* form its client signed, or that was not signed with the server's secret,
\* is answered with one success:false envelope carrying an authentication
\* reason and its handler does not run; a request that arrives as signed with
\* the secret, in the nonce window and with its required parameters, is
\* dispatched.
C16_SignatureBindsParameters ==
  (gpc = "gated" /\ gauth) =>
    /\ (gform # gsent \/ gkey # Secret)
         => /\ ~gdispatched
            /\ Len(greplies) = 1
            /\ ~greplies[1].success
            /\ greplies[1].reason \in AuthReasons
    /\ ( /\ gform = gsent /\ gkey = Secret /\ ~gbad
         /\ InWindow(Get(gform, KeyNonce), gnow)
         /\ FirstMissing(gform, RequiredParams(gep)) = 0 )
         => (gdispatched /\ greplies = <<>>)

C16_Witness ==
  /\ gpc = "gated" /\ gauth /\ ~gbad /\ gep = "/deposit"
  /\ gkey = Secret /\ gtampers > 0
  /\ Get(gsent, KeyAmount) = <<"0", "x", "1">>
  /\ Get(gform, KeyAmount) = <<"0", "x", "2">>
  /\ ~gdispatched
  /\ greplies = <<[success |-> FALSE, reason |-> ErrSigned]>>

\* C17: with authentication enabled, a request gets past the nonce check
\* exactly when its nonce is an integer within NonceWindow of the server
\* time; any other request is answered with the single envelope success:false,
\* "Your nonce is invalid", and its handler does not run.
C17_NonceWindow ==
  (gpc = "gated" /\ gauth /\ ~gbad) =>
    LET ok == InWindow(Get(gform, KeyNonce), gnow)
    IN /\ ok <=> ~(greplies # <<>> /\ greplies[1].reason = ErrNonce)
       /\ ~ok => ( /\ greplies = <<[success |-> FALSE, reason |-> ErrNonce]>>
                   /\ ~gdispatched )

C17_Witness ==
  /\ gpc = "gated" /\ gauth /\ ~gbad
  /\ Get(gform, KeyNonce) = FormatInt(gnow - 15000)
  /\ greplies = <<[success |-> FALSE, reason |-> ErrNonce]>>

\* C18: whether authentication is enabled or not, a request that lacks a
\* parameter its endpoint requires is answered with one success:false
\* envelope (naming the parameter, unless the nonce check turned the request
\* down first) and its handler does not run.
C18_RequiredParamsAlwaysVerified ==
  (gpc = "gated" /\ ~gbad /\ FirstMissing(gform, RequiredParams(gep)) # 0) =>
    /\ ~gdispatched
    /\ Len(greplies) = 1
    /\ \/ gauth /\ greplies[1].reason = ErrNonce
       \/ greplies[1].reason =
            MissingReason(RequiredParams(gep)[FirstMissing(gform, RequiredParams(gep))])

\* C19: a handler that has returned wrote exactly one envelope, and its
\* success field is false exactly when an error was met.
C19_OneEnvelopePerRequest ==
  hpc = "done" =>
    /\ Len(hreplies) = 1
    /\ ~hreplies[1] <=> herrs > 0

\* C20 as stated: a snapshot handler asks the facade at the server time when
\* the request has no timestamp, at the sentinel when the timestamp does not
\* parse as u64, and at the parsed value otherwise.
C20_TimepointNowWhenAbsent ==
  (hpc = "done" /\ hname \in SnapshotHandlers /\ Len(htp) > 0) =>
    htp = << IF hin.timestamp = Absent THEN hnow
             ELSE IF ~IsU64Decimal(hin.timestamp) THEN MAX_TIMESPOT
             ELSE Magnitude(hin.timestamp, MaxUint) >>

\* C20 amended: a snapshot handler asks the facade once, at the sentinel
\* ("latest") when the request has no timestamp or one that does not parse as
\* u64, and at the parsed value otherwise; never at the server time.
C20_TimepointLatestWhenAbsent ==
  (hpc = "done" /\ hname \in SnapshotHandlers /\ (hname = "Price" => hin.pairOK)) =>
    htp = << IF hin.timestamp = Absent \/ ~IsU64Decimal(hin.timestamp)
             THEN MAX_TIMESPOT
             ELSE Magnitude(hin.timestamp, MaxUint) >>

C20_Witness ==
  /\ hpc = "done" /\ hname = "AuthData"
  /\ hin.timestamp = Absent
  /\ htp = <<MAX_TIMESPOT>> /\ hreplies = <<TRUE>>

\* C21: the buffer of RamMetricStorage never holds more than MAX_CAPACITY
\* entries, and after n StoreMetric calls, concurrent ones included, it holds
\* exactly the last min(n, MAX_CAPACITY) entries stored, in the order in which
\* they were stored.
C21_BufferHoldsLastEntries ==
  /\ Len(mdata) <= MAX_CAPACITY
  /\ LET n == Len(mstored)
         kept == IF n < MAX_CAPACITY THEN n ELSE MAX_CAPACITY
     IN /\ Len(mdata) = kept
        /\ \A k \in 1..kept : mdata[k] = mstored[n - kept + k]

C21_Witness ==
  /\ Len(mstored) = MAX_CAPACITY + 1
  /\ Len(mdata) = MAX_CAPACITY
  /\ mdata[1] # mstored[1]
  /\ mdata[MAX_CAPACITY] = mstored[MAX_CAPACITY + 1]
  /\ mdata[MAX_CAPACITY] # mstored[MAX_CAPACITY]

\* the response items GetMetric owes for token tok: one for every buffered
\* entry in the range that carries the token
Owed(seen, tok, fromTime, toTime) ==
  {i \in DOMAIN seen :
     /\ fromTime <= seen[i].Timestamp /\ seen[i].Timestamp <= toTime
     /\ tok \in DOMAIN seen[i].Data}

ItemOf(e, tok) ==
  [Timestamp |-> e.Timestamp, AfpMid |-> e.Data[tok].AfpMid,
   Spread |-> e.Data[tok].Spread]

\* C22: GetMetric(tokens, from, to) returns a list for each requested token
\* and for no other; the list of a token holds exactly the metrics of that
\* token from the buffered entries with from <= Timestamp <= to, each once,
\* in descending order of timestamp, in whatever order the entries were
\* stored.
C22_GetMetricRangeDescending ==
  mread # NoRead =>
    /\ DOMAIN mread.result = mread.tokens
    /\ \A tok \in mread.tokens :
         LET list == mread.result[tok]
             owed == Owed(mread.seen, tok, mread.fromTime, mread.toTime)
         IN /\ Len(list) = Cardinality(owed)
            /\ \A i \in owed :
                 \E k \in DOMAIN list : list[k] = ItemOf(mread.seen[i], tok)
            /\ \A k, l \in DOMAIN list :
                 k < l => list[k].Timestamp >= list[l].Timestamp

\* C30: a POST /metrics request that was answered success:false has stored
\* nothing, and no entry is stored for a request whose timestamp does not
\* parse as u64 or whose data is not in the <token>_<afp_mid>_<spread> format.
C30_FailureStoresNothing ==
  \A p \in MetProcs :
    ( \/ \E k \in DOMAIN mloc[p].replies : ~mloc[p].replies[k]
      \/ mpc[p] # "idle" /\ ParseUint(mreq[p].timestamp).err # NoErr
      \/ mpc[p] # "idle" /\ ParseTokenData(SplitOn(mreq[p].data, "|"), <<>>).err # NoErr )
    => ~mloc[p].stored

\* a goroutine that is reading the map of the table
ReadsTable(r) ==
  IF r = "all" THEN xpc.all \in {"rlocked", "iterate"} ELSE xpc.one = "rlocked"

\* C23: no reader, the /exchangeinfo handler included, reads the map of the
\* table while ExchangeInfo.Update is writing it.
C23_TableAccessSerialized ==
  xpc.upd = "write" => \A r \in {"all", "one"} : ~ReadsTable(r)

\* the activity that the command serving request p handed to
\* activityStorage.Record
Recorded(p) == Activity(p, loc[p].uid)

\* the command of kind k serving request p has returned
Returned(p, k) == pc[p] = "done" /\ req[p].kind = k /\ loc[p].recordCalls = 1

\* the adapter was called for request p and reported no error
AdapterSucceeded(p) == loc[p].adapterCalls = 1 /\ loc[p].adapterErr = NoErr

\* the journal holds the record of request p as it was created
HoldsAsCreated(p) == \E i \in DOMAIN journal : journal[i] = Recorded(p)

\* C24: a trade activity is recorded with the exchange id as destination,
\* mining status "" and exchange status failed when the adapter returned an
\* error, done when it reported finished, submitted otherwise.
C24_TradeRecord ==
  /\ \A p \in Procs :
       Returned(p, "trade") =>
         /\ loc[p].adapterCalls = 1
         /\ Recorded(p).action = "trade"
         /\ Recorded(p).destination = req[p].exchange
         /\ Recorded(p).mstatus = ""
         /\ Recorded(p).estatus =
              (IF loc[p].adapterErr # NoErr THEN "failed"
               ELSE IF loc[p].finished THEN "done" ELSE "submitted")
         /\ (loc[p].recordOK /\ nupd = 0) => HoldsAsCreated(p)
  /\ \A i \in DOMAIN journal :
       journal[i].action = "trade" =>
         /\ journal[i].destination \in SupportedExchanges
         /\ journal[i].mstatus = ""
         /\ journal[i].estatus \in {"failed", "done", "submitted"}

C24_Witness ==
  \E p, q \in Procs, i, j \in DOMAIN journal :
    /\ Returned(p, "trade") /\ Returned(q, "trade")
    /\ loc[p].finished /\ journal[i] = Recorded(p) /\ journal[i].estatus = "done"
    /\ loc[q].adapterErr # NoErr /\ journal[j] = Recorded(q)
    /\ journal[j].estatus = "failed"

\* C25: Deposit checks first that the exchange has a deposit address for the
\* token, then that no deposit for (token, exchange) is pending, and calls
\* blockchain.Send iff both hold; the activity is recorded with mining status
\* submitted exactly when Send was called and succeeded and failed in every
\* other case, with exchange status "", and its external id is the tx hash
\* (the zero hash when no tx was sent), the token id and the amount.
C25_DepositRecord ==
  [][\A p \in Procs :
       /\ (pc[p] = "deposit" /\ pc'[p] # "deposit")
          => /\ chain' = chain
             /\ loc'[p].adapterCalls = 0
             /\ IF req[p].token \notin DepositAddresses[req[p].exchange]
                THEN /\ pc'[p] = "record"
                     /\ loc'[p].err = ErrUnsupported /\ loc'[p].id = ZeroHash
                ELSE IF HasPendingDeposit(journal, req[p].token, req[p].exchange)
                THEN /\ pc'[p] = "record"
                     /\ loc'[p].err = ErrPending /\ loc'[p].id = ZeroHash
                ELSE pc'[p] = "send"
       /\ (pc[p] = "send" /\ pc'[p] # "send")
          => /\ chain'.send = chain.send + 1
             /\ loc'[p].adapterCalls = 1
             /\ pc'[p] = "record"
       /\ (req[p].kind = "deposit" /\ pc[p] = "record" /\ pc'[p] = "done")
          => LET a == Activity(p, loc'[p].uid)
             IN /\ chain' = chain
                /\ a.action = "deposit" /\ a.destination = req[p].exchange
                /\ a.estatus = ""
                /\ a.mstatus = (IF AdapterSucceeded(p) THEN "submitted" ELSE "failed")
                /\ a.tx = (IF AdapterSucceeded(p) THEN TxHash(p) ELSE ZeroHash)
                /\ a.id.EID = <<a.tx, req[p].token, FormatAmount(req[p].amount)>>
                /\ IF loc'[p].recordOK THEN journal' = Append(journal, a)
                   ELSE journal' = journal]_vars

C25_Witness ==
  \E p, q \in Procs :
    /\ Returned(p, "deposit") /\ Returned(q, "deposit")
    /\ AdapterSucceeded(p) /\ Recorded(p).mstatus = "submitted"
    /\ loc[p].uid.EID = <<TxHash(p), "ETH", "1">>
    /\ loc[q].adapterCalls = 0 /\ loc[q].err = ErrPending
    /\ Recorded(q).mstatus = "failed" /\ loc[q].uid.EID[1] = ZeroHash

\* C26: Withdraw calls exchange.Withdraw iff the exchange supports the token;
\* the activity is recorded with exchange status submitted when that call
\* succeeded and failed otherwise, with mining status "" and an empty result
\* tx.
C26_WithdrawRecord ==
  /\ exchange.withdraw = CallsOf("withdraw")
  /\ \A p \in Procs :
       (req[p].kind = "withdraw" /\ loc[p].coreCalled /\ pc[p] \in {"record", "done"})
         => /\ (loc[p].adapterCalls = 1)
                <=> (req[p].token \in DepositAddresses[req[p].exchange])
            /\ (loc[p].adapterCalls = 0) => (loc[p].err = ErrUnsupported)
  /\ \A p \in Procs :
       Returned(p, "withdraw") =>
         /\ Recorded(p).action = "withdraw"
         /\ Recorded(p).destination = req[p].exchange
         /\ Recorded(p).estatus =
              (IF AdapterSucceeded(p) THEN "submitted" ELSE "failed")
         /\ Recorded(p).mstatus = ""
         /\ Recorded(p).tx = ""
         /\ (loc[p].recordOK /\ nupd = 0) => HoldsAsCreated(p)

C26_Witness ==
  \E p, q \in Procs, i, j \in DOMAIN journal :
    /\ Returned(p, "withdraw") /\ Returned(q, "withdraw")
    /\ AdapterSucceeded(p) /\ journal[i] = Recorded(p)
    /\ journal[i].estatus = "submitted"
    /\ loc[q].adapterCalls = 0 /\ journal[j] = Recorded(q)
    /\ journal[j].estatus = "failed"

\* C27: a set_rates activity is recorded with destination "blockchain",
\* exchange status "", and mining status submitted when blockchain.SetRates
\* succeeded and failed on any error, the rejection for lists of different
\* lengths included.
C27_SetRatesRecord ==
  /\ \A p \in Procs :
       Returned(p, "setrates") =>
         /\ Recorded(p).action = "set_rates"
         /\ Recorded(p).destination = "blockchain"
         /\ Recorded(p).estatus = ""
         /\ Recorded(p).mstatus =
              (IF AdapterSucceeded(p) THEN "submitted" ELSE "failed")
         /\ ~(Len(loc[p].tokens) = Len(loc[p].buys)
               /\ Len(loc[p].tokens) = Len(loc[p].sells))
              => (loc[p].adapterCalls = 0 /\ Recorded(p).mstatus = "failed")
         /\ (loc[p].recordOK /\ nupd = 0) => HoldsAsCreated(p)
  /\ \A i \in DOMAIN journal :
       journal[i].action = "set_rates" =>
         (journal[i].destination = "blockchain" /\ journal[i].estatus = "")

C27_Witness ==
  \E p, q \in Procs, i, j \in DOMAIN journal :
    /\ Returned(p, "setrates") /\ Returned(q, "setrates")
    /\ AdapterSucceeded(p) /\ journal[i] = Recorded(p)
    /\ journal[i].mstatus = "submitted"
    /\ loc[q].err = ErrLength /\ journal[j] = Recorded(q)
    /\ journal[j].mstatus = "failed"

\* C29: the activity a command records is not pending at creation when the
\* command returns an error, and is pending at creation when it returns none,
\* except a trade reported finished; a deposit recorded with an error is
\* never pending, so that it never makes HasPendingDeposit true, and a deposit
\* turned down for a pending deposit was turned down for one that succeeded.
C29_PendingAtCreation ==
  /\ \A p \in Procs :
       (pc[p] = "done" /\ loc[p].recordCalls = 1) =>
         /\ loc[p].err # NoErr => ~IsPending(Recorded(p))
         /\ loc[p].err = NoErr =>
              (IsPending(Recorded(p))
                 <=> ~(req[p].kind = "trade" /\ loc[p].finished))
  /\ \A i \in DOMAIN journal :
       (journal[i].action = "deposit" /\ journal[i].error # NoErr)
         => ~IsPending(journal[i])
  /\ \A p \in Procs :
       (req[p].kind = "deposit" /\ loc[p].err = ErrPending) =>
         \E i \in DOMAIN journal :
           /\ SameKey(journal[i], req[p].token, req[p].exchange)
           /\ journal[i].error = NoErr

C29_Witness ==
  \E p, q \in Procs, i, j \in DOMAIN journal :
    /\ Returned(p, "deposit") /\ Returned(q, "deposit") /\ req[p] = req[q]
    /\ loc[p].adapterErr # NoErr /\ journal[i] = Recorded(p)
    /\ ~IsPending(journal[i])
    /\ i < j /\ journal[j] = Recorded(q)
    /\ loc[q].err = NoErr /\ IsPending(journal[j])

====
